---- MODULE Spec2Model ----
(***************************************************************************)
(* A model of polaris.py, the PAPI client: one client object (self), the   *)
(* wall clock its calls read, and the record of the most recent public     *)
(* method call (what it printed, what it handed to the session's send).    *)
(*                                                                         *)
(* Python text is a TLA+ string; a Python value that a caller supplies is  *)
(* a tagged record (PyStr, PyInt, PyNone, PyDict) so that str.format,      *)
(* json.dumps and string concatenation can treat the types as Python does. *)
(* A dict is the sequence of its items in the order its iteration yields.  *)
(***************************************************************************)
EXTENDS Integers, Sequences, FiniteSets, Bags, TLC

VARIABLES self, clock, last

vars == <<self, clock, last>>

(***************************************************************************)
(* Bounds of the model.                                                    *)
(***************************************************************************)
\* The clock runs from 0 to MaxClock seconds.
MaxClock == 1

(***************************************************************************)
(* Python values.                                                          *)
(***************************************************************************)
PyStr(s) == [t |-> "str", v |-> s]
PyInt(n) == [t |-> "int", v |-> n]
PyNone == [t |-> "None"]
PyDict(items) == [t |-> "dict", v |-> items]
PyList(elements) == [t |-> "list", v |-> elements]

IsStr(x) == x.t = "str"

\* bool(x): the truth value Python gives a value.
Truthy(x) ==
    CASE x.t = "str" -> x.v # ""
      [] x.t = "int" -> x.v # 0
      [] x.t = "None" -> FALSE
      [] x.t = "dict" -> Len(x.v) > 0
      [] x.t = "list" -> Len(x.v) > 0

\* kwargs.get(key, default)
Get(kwargs, key, default) ==
    IF key \in DOMAIN kwargs THEN kwargs[key] ELSE default

Digits == "0123456789"

\* str(n) for a non-negative int
RECURSIVE IntToStr(_)
IntToStr(n) ==
    IF n < 10 THEN SubSeq(Digits, n + 1, n + 1)
    ELSE IntToStr(n \div 10) \o SubSeq(Digits, (n % 10) + 1, (n % 10) + 1)

\* What '{name}'.format(name=x) puts in the place of the field: str(x).
Fmt(x) ==
    CASE x.t = "str" -> x.v
      [] x.t = "int" -> IntToStr(x.v)
      [] x.t = "None" -> "None"

(***************************************************************************)
(* Characters and their codes (printable ASCII, code 32 to 126).           *)
(***************************************************************************)
\* chr(32) .. chr(95), and chr(97) .. chr(126)
AsciiLow ==
    " !\"#$%&'()*+,-./0123456789:;<=>?@ABCDEFGHIJKLMNOPQRSTUVWXYZ[\\]^_"
AsciiHigh == "abcdefghijklmnopqrstuvwxyz{|}~"

AsciiChars ==
    {SubSeq(AsciiLow, i, i) : i \in 1..Len(AsciiLow)}
        \cup {SubSeq(AsciiHigh, i, i) : i \in 1..Len(AsciiHigh)}

OrdTable ==
    [c \in AsciiChars |->
        IF \E i \in 1..Len(AsciiLow) : SubSeq(AsciiLow, i, i) = c
        THEN 31 + CHOOSE i \in 1..Len(AsciiLow) : SubSeq(AsciiLow, i, i) = c
        ELSE 96 + CHOOSE i \in 1..Len(AsciiHigh) : SubSeq(AsciiHigh, i, i) = c]

\* ord(c)
Ord(c) == OrdTable[c]

Hex == "0123456789ABCDEF"

(***************************************************************************)
(* _dictParse (lines 79-96).                                               *)
(***************************************************************************)
\* A faulty variant of the inner loops, which leaves the spaces in place.
ParsedParamAsGiven(text) == text

\* The inner loops (lines 86-89 and 90-93): every ' ' becomes '+', every
\* other character is appended as it is.
\* (The text is walked by halves to keep the evaluation shallow; the
\* result is that of the loop from left to right.)
RECURSIVE ParsedParam(_)
ParsedParam(text) ==
    IF \A i \in 1..Len(text) : SubSeq(text, i, i) # " " THEN text
    ELSE IF Len(text) = 1 THEN (IF text = " " THEN "+" ELSE text)
    ELSE ParsedParam(SubSeq(text, 1, Len(text) \div 2))
         \o ParsedParam(SubSeq(text, (Len(text) \div 2) + 1, Len(text)))

\* What 'for char in params[paramKey]' (line 91) draws from a value that is
\* not a text: the elements of a list, the keys of a mapping.
Elements(value) ==
    IF value.t = "list" THEN [i \in DOMAIN value.v |-> value.v[i].v]
    ELSE [i \in DOMAIN value.v |-> value.v[i][1]]

\* Lines 91-93 over such elements: an element equal to ' ' becomes '+',
\* every other element is appended whole.
RECURSIVE ParsedElements(_)
ParsedElements(elements) ==
    IF Len(elements) = 0 THEN ""
    ELSE (IF elements[1] = " " THEN "+" ELSE elements[1])
             \o ParsedElements(Tail(elements))

\* Lines 90-93
ParsedParamValue(value) ==
    IF value.t = "str" THEN ParsedParam(value.v)
    ELSE ParsedElements(Elements(value))

\* The outer loop (lines 85-94) over the items of params, in iteration
\* order: parsedParams += '&'+parsedParamKey+'='+parsedParamValue
RECURSIVE ParsedParams(_)
ParsedParams(items) ==
    IF Len(items) = 0 THEN ""
    ELSE "&" \o ParsedParam(items[1][1]) \o "=" \o ParsedParamValue(items[1][2])
             \o ParsedParams(Tail(items))

\* Lines 95-96: '?'+parsedParams[1:] when parsedParams is not empty.
Suffix(parsedParams) ==
    IF parsedParams # ""
    THEN "?" \o SubSeq(parsedParams, 2, Len(parsedParams))
    ELSE parsedParams

_dictParse(params) == Suffix(ParsedParams(params.v))

\* A value that lines 91-93 run over without an error: a text, a mapping
\* with text keys, a list of texts.  (An integer and None cannot be
\* iterated; an element that is not a text cannot be appended to a text.)
Parsable(value) ==
    \/ value.t \in {"str", "dict"}
    \/ value.t = "list" /\ \A i \in DOMAIN value.v : value.v[i].t = "str"

\* The error that _dictParse raises, '' when it raises none: params.keys()
\* (line 85) of a value that is not a mapping, and the loop of lines 91-93
\* over a value that is not parsable.
_dictParseError(params) ==
    IF params.t # "dict" THEN "AttributeError"
    ELSE IF \E i \in DOMAIN params.v : ~Parsable(params.v[i][2])
         THEN "TypeError"
    ELSE ""

(***************************************************************************)
(* _getPAPIHash (lines 73-77).                                             *)
(***************************************************************************)
\* hashlib.sha1().digest_size
DigestSize == 20

\* The sum of code times position over text from lo on, modulo 65521.
\* (The positions with their weights form a bag, and the cardinality of a
\* bag is the sum of its weights.)
Checksum(text, lo) ==
    BagCardinality([i \in lo..Len(text) |-> Ord(SubSeq(text, i, i)) * i])
        % 65521

\* hmac.new(key, message, sha1).digest(): DigestSize bytes that the key and
\* the message determine.  The rounds of SHA-1 are not reproduced here; the
\* bytes are spread from a running checksum of the key and of the
\* message, which keeps what the client relies on: the size of the digest
\* and its dependence on both inputs.
Spread(sum) ==
    [i \in 1..DigestSize |-> (sum * i + (sum \div 256) + i * i) % 256]

HMAC_SHA1(key, message) ==
    Spread((Checksum(key, 1) * 31 + Checksum(message, 1)) % 65521)

B64Alphabet ==
    "ABCDEFGHIJKLMNOPQRSTUVWXYZabcdefghijklmnopqrstuvwxyz0123456789+/"

B64Char(n) == SubSeq(B64Alphabet, n + 1, n + 1)

\* binascii.b2a_base64 without its final newline: three bytes give four
\* characters, a rest of one or two bytes is padded with '='.
RECURSIVE B64Groups(_)
B64Groups(bytes) ==
    IF Len(bytes) = 0 THEN ""
    ELSE IF Len(bytes) = 1
    THEN B64Char(bytes[1] \div 4) \o B64Char((bytes[1] % 4) * 16) \o "=="
    ELSE IF Len(bytes) = 2
    THEN B64Char(bytes[1] \div 4)
         \o B64Char((bytes[1] % 4) * 16 + (bytes[2] \div 16))
         \o B64Char((bytes[2] % 16) * 4) \o "="
    ELSE B64Char(bytes[1] \div 4)
         \o B64Char((bytes[1] % 4) * 16 + (bytes[2] \div 16))
         \o B64Char((bytes[2] % 16) * 4 + (bytes[3] \div 64))
         \o B64Char(bytes[3] % 64)
         \o B64Groups(SubSeq(bytes, 4, Len(bytes)))

\* A faulty variant of the codec, base64.b64encode, which adds no newline.
EncodeBase64OneLine(bytes) == B64Groups(bytes)

\* bytes.encode('base64') of Python 2 (base64.encodestring): every piece of
\* at most 57 bytes becomes one line, and every line ends in a newline.
RECURSIVE EncodeBase64(_)
EncodeBase64(bytes) ==
    IF Len(bytes) = 0 THEN ""
    ELSE IF Len(bytes) <= 57 THEN B64Groups(bytes) \o "\n"
    ELSE B64Groups(SubSeq(bytes, 1, 57)) \o "\n"
         \o EncodeBase64(SubSeq(bytes, 58, Len(bytes)))

\* text[:-1]
DropLast(text) == SubSeq(text, 1, Len(text) - 1)

\* A faulty variant of line 74, which puts the password before the date.
HashMessageDateLast(HTTPMethod, URI, HTTPDate, patronPassword) ==
    HTTPMethod \o URI \o patronPassword.v \o HTTPDate

\* Line 74.  patronPassword is the value the caller gave: adding anything
\* but text to text raises TypeError.
HashMessage(HTTPMethod, URI, HTTPDate, patronPassword) ==
    HTTPMethod \o URI \o HTTPDate \o patronPassword.v

\* The result names what the call printed (line 75) and what it returned;
\* hmac.new raises TypeError for a key that is not text.
_getPAPIHash(HTTPMethod, URI, HTTPDate, patronPassword) ==
    IF ~IsStr(patronPassword)
    THEN [raised |-> TRUE, printed |-> <<>>, value |-> ""]
    ELSE LET message == HashMessage(HTTPMethod, URI, HTTPDate, patronPassword)
         IN  IF ~IsStr(self._accessKey)
             THEN [raised |-> TRUE, printed |-> <<message>>, value |-> ""]
             ELSE [raised |-> FALSE, printed |-> <<message>>,
                   value |-> DropLast(EncodeBase64(
                                 HMAC_SHA1(self._accessKey.v, message)))]

(***************************************************************************)
(* The library calls of _undifferentiatied.                                *)
(***************************************************************************)
TwoDigits(n) == IF n < 10 THEN "0" \o IntToStr(n) ELSE IntToStr(n)

\* email.utils.formatdate(timeval=None, localtime=False, usegmt=True) when
\* time.time() is timeval; the clock of the model starts at the epoch and
\* stays within its first hour.
formatdate(timeval) ==
    "Thu, 01 Jan 1970 00:" \o TwoDigits((timeval \div 60) % 60) \o ":"
        \o TwoDigits(timeval % 60) \o " GMT"

RECURSIVE JsonEscape(_)
JsonEscape(text) ==
    IF \A i \in 1..Len(text) : SubSeq(text, i, i) \notin {"\"", "\\"} THEN text
    ELSE IF Len(text) = 1
    THEN (CASE text = "\"" -> "\\\""
            [] text = "\\" -> "\\\\"
            [] OTHER -> text)
    ELSE JsonEscape(SubSeq(text, 1, Len(text) \div 2))
         \o JsonEscape(SubSeq(text, (Len(text) \div 2) + 1, Len(text)))

\* json.dumps with its default separators ', ' and ': '
RECURSIVE dumps(_)
RECURSIVE DumpItems(_)
dumps(x) ==
    CASE x.t = "str" -> "\"" \o JsonEscape(x.v) \o "\""
      [] x.t = "int" -> IntToStr(x.v)
      [] x.t = "None" -> "null"
      [] x.t = "dict" -> "{" \o DumpItems(x.v) \o "}"

DumpItems(items) ==
    IF Len(items) = 0 THEN ""
    ELSE IF Len(items) = 1
    THEN "\"" \o JsonEscape(items[1][1]) \o "\": " \o dumps(items[1][2])
    ELSE DumpItems(SubSeq(items, 1, Len(items) \div 2)) \o ", "
         \o DumpItems(SubSeq(items, (Len(items) \div 2) + 1, Len(items)))

LowerCase == "abcdefghijklmnopqrstuvwxyz"
UpperCase == "ABCDEFGHIJKLMNOPQRSTUVWXYZ"

\* str.upper()
LowerCaseChars == {SubSeq(LowerCase, i, i) : i \in 1..26}

RECURSIVE upper(_)
upper(text) ==
    IF \A i \in 1..Len(text) : SubSeq(text, i, i) \notin LowerCaseChars THEN text
    ELSE IF Len(text) = 1
    THEN (IF \E i \in 1..26 : SubSeq(LowerCase, i, i) = text
          THEN LET i == CHOOSE j \in 1..26 : SubSeq(LowerCase, j, j) = text
               IN  SubSeq(UpperCase, i, i)
          ELSE text)
    ELSE upper(SubSeq(text, 1, Len(text) \div 2))
         \o upper(SubSeq(text, (Len(text) \div 2) + 1, Len(text)))

\* The characters requests.utils.requote_uri leaves as they are: the
\* unreserved ones and its safe list "!#$%&'()*+,/:;=?@[]~".
UriSafe == "!#$%&'()*+,/:;=?@[]~-._0123456789" \o LowerCase \o UpperCase

UriSafeChars == {SubSeq(UriSafe, i, i) : i \in 1..Len(UriSafe)}

\* requote_uri on a URI without '%': every character outside UriSafeChars
\* becomes '%' and the two hex digits of its code.  (The walk goes from one
\* such character to the next.)
\* '%' and the two hex digits of a code
Quoted(code) ==
    "%" \o SubSeq(Hex, (code \div 16) + 1, (code \div 16) + 1)
        \o SubSeq(Hex, (code % 16) + 1, (code % 16) + 1)

RECURSIVE requote_uri(_)
RECURSIVE RequotedAt(_, _)
requote_uri(uri) ==
    IF \A i \in 1..Len(uri) : SubSeq(uri, i, i) \in UriSafeChars THEN uri
    ELSE RequotedAt(uri, CHOOSE i \in 1..Len(uri) :
                             /\ SubSeq(uri, i, i) \notin UriSafeChars
                             /\ \A j \in 1..(i - 1) :
                                    SubSeq(uri, j, j) \in UriSafeChars)

\* uri requoted, when its first character to quote is the one at first
RequotedAt(uri, first) ==
    SubSeq(uri, 1, first - 1) \o Quoted(Ord(SubSeq(uri, first, first)))
        \o requote_uri(SubSeq(uri, first + 1, Len(uri)))

\* The host of a URI: what stands between '://' and the next '/'.
HostOf(uri) ==
    LET start == 3 + CHOOSE i \in 1..Len(uri) : SubSeq(uri, i, i + 2) = "://"
        rest == SubSeq(uri, start, Len(uri))
    IN  IF \E j \in 1..Len(rest) : SubSeq(rest, j, j) = "/"
        THEN SubSeq(rest, 1, (CHOOSE j \in 1..Len(rest) :
                                  /\ SubSeq(rest, j, j) = "/"
                                  /\ \A k \in 1..(j - 1) :
                                         SubSeq(rest, k, k) # "/") - 1)
        ELSE rest

\* requests.Request(HTTPMethod, URI, data=data).prepare() (lines 113-114):
\* the method in upper case, the URL requoted, the body the data given;
\* a URL without a host raises InvalidURL.
prepare(HTTPMethod, URI, data) ==
    IF HostOf(URI) = ""
    THEN [error |-> "InvalidURL", method |-> "", url |-> "", body |-> ""]
    ELSE [error |-> "", method |-> upper(HTTPMethod), url |-> requote_uri(URI),
          body |-> data]

(***************************************************************************)
(* _undifferentiatied (lines 98-125).                                      *)
(***************************************************************************)
NoRequest == [method |-> "", url |-> "", body |-> "", headers |-> <<>>]

\* A call that ended in a raised error before anything was sent.
Raised(error, printed) ==
    [outcome |-> "raised", error |-> error, sends |-> 0, printed |-> printed,
     request |-> NoRequest, locals |-> <<>>]

\* A faulty variant of line 108, which prefers patronPassword.
patronPasswordFirst(kwargs) ==
    Get(kwargs, "patronPassword", Get(kwargs, "accessSecret", PyStr("")))

\* Line 108
patronPasswordOf(kwargs) ==
    Get(kwargs, "accessSecret", Get(kwargs, "patronPassword", PyStr("")))

\* Lines 102-109: the locals read from kwargs.  (Every local of the run is
\* computed once and handed on in the record of the locals.)
Arguments(protocol, HTTPMethod, protection, suffixURI, kwargs) ==
    [protocol |-> protocol, HTTPMethod |-> HTTPMethod,
     protection |-> protection, suffixURI |-> suffixURI,
     version |-> Get(kwargs, "version", PyStr("v1")),
     langID |-> Get(kwargs, "langID", PyStr("1033")),
     appID |-> Get(kwargs, "appID", PyStr("100")),
     orgID |-> Get(kwargs, "orgID", PyStr("1")),
     paramsSuffix |-> _dictParse(Get(kwargs, "params", PyDict(<<>>))),
     data |-> dumps(Get(kwargs, "data", PyDict(<<>>))),
     patronPassword |-> patronPasswordOf(kwargs),
     accessToken |-> Get(kwargs, "accessToken", PyStr(""))]

\* A faulty variant of line 111, which ignores the orgID of the call.
WithRootURIOfSystem(l) ==
    ("rootURI" :>
         l.protocol \o "://" \o Fmt(self._hostname) \o "/PAPIService/REST/"
             \o l.protection \o "/" \o Fmt(l.version) \o "/" \o Fmt(l.langID)
             \o "/" \o Fmt(l.appID) \o "/1/") @@ l

\* Line 111
WithRootURI(l) ==
    ("rootURI" :>
         l.protocol \o "://" \o Fmt(self._hostname) \o "/PAPIService/REST/"
             \o l.protection \o "/" \o Fmt(l.version) \o "/" \o Fmt(l.langID)
             \o "/" \o Fmt(l.appID) \o "/" \o Fmt(l.orgID) \o "/") @@ l

\* Line 112
WithURI(l) == ("URI" :> l.rootURI \o l.suffixURI \o l.paramsSuffix) @@ l

\* Lines 113-114
WithPreparedRequest(l) ==
    ("preparedRequest" :> prepare(l.HTTPMethod, l.URI, l.data)) @@ l

\* A faulty variant of line 115, which keeps the date of the construction.
WithHTTPDateOfStart(l) == ("HTTPDate" :> formatdate(0)) @@ l

\* Line 115: formatdate reads the clock.
WithHTTPDate(l) == ("HTTPDate" :> formatdate(clock)) @@ l

\* A faulty variant of line 116, which signs the URI as it was assembled.
WithSignatureOfURI(l) ==
    ("hash" :> _getPAPIHash(l.HTTPMethod, l.URI, l.HTTPDate,
                            l.patronPassword)) @@ l

\* Line 116
WithSignature(l) ==
    ("hash" :> _getPAPIHash(l.HTTPMethod, l.preparedRequest.url, l.HTTPDate,
                            l.patronPassword)) @@ l

\* A faulty variant of lines 118-122, which gives the length 0 for the
\* body of an operation without data.
HeadersOfNoLength(l) ==
    ("Authorization" :>
         PyStr("PWS " \o Fmt(self._accessKeyID) \o ":" \o l.hash.value))
    @@ ("Date" :> PyStr(l.HTTPDate))
    @@ ("Content-Type" :> PyStr("application/json"))
    @@ ("Content-Length" :> PyInt(IF l.data = "{}" THEN 0 ELSE Len(l.data)))
    @@ ("Accept" :> PyStr("application/json"))

\* A faulty variant of lines 118-122, which names the access key in the
\* place of its id.
HeadersOfKey(l) ==
    ("Authorization" :>
         PyStr("PWS " \o Fmt(self._accessKey) \o ":" \o l.hash.value))
    @@ ("Date" :> PyStr(l.HTTPDate))
    @@ ("Content-Type" :> PyStr("application/json"))
    @@ ("Content-Length" :> PyInt(Len(l.data)))
    @@ ("Accept" :> PyStr("application/json"))

\* Lines 118-122
Headers(l) ==
    ("Authorization" :>
         PyStr("PWS " \o Fmt(self._accessKeyID) \o ":" \o l.hash.value))
    @@ ("Date" :> PyStr(l.HTTPDate))
    @@ ("Content-Type" :> PyStr("application/json"))
    @@ ("Content-Length" :> PyInt(Len(l.data)))
    @@ ("Accept" :> PyStr("application/json"))

\* A faulty variant of line 123, which leaves out the test of protection.
UpdatedForAnyProtection(l) ==
    IF Truthy(l.accessToken)
    THEN ("X-PAPI-AccessToken" :> l.accessToken) @@ Headers(l)
    ELSE Headers(l)

\* Line 123
Updated(l) ==
    IF Truthy(l.accessToken) /\ l.protection = "public"
    THEN ("X-PAPI-AccessToken" :> l.accessToken) @@ Headers(l)
    ELSE Headers(l)

\* Lines 117-125: the signature is printed, the headers replace those of
\* the prepared request, and the request goes to self._session.send.
Send(l) ==
    IF l.hash.raised THEN Raised("TypeError", l.hash.printed)
    ELSE [outcome |-> "sent", error |-> "", sends |-> 1,
          printed |-> l.hash.printed \o <<l.hash.value>>,
          request |-> [method |-> l.preparedRequest.method,
                       url |-> l.preparedRequest.url,
                       body |-> l.preparedRequest.body,
                       headers |-> Updated(l)],
          locals |-> l]

\* Lines 114-125: an error of prepare leaves the call at line 114, before
\* the date is read and the signature computed.
Prepared(l) ==
    IF l.preparedRequest.error # ""
    THEN Raised(l.preparedRequest.error, <<>>)
    ELSE Send(WithSignature(WithHTTPDate(l)))

\* The result of a call: what it printed, the request it handed to
\* self._session.send, and the locals of the run.  An error of _dictParse
\* leaves the call at line 106.
_undifferentiatied(protocol, HTTPMethod, protection, suffixURI, kwargs) ==
    IF _dictParseError(Get(kwargs, "params", PyDict(<<>>))) # ""
    THEN Raised(_dictParseError(Get(kwargs, "params", PyDict(<<>>))), <<>>)
    ELSE Prepared(WithPreparedRequest(WithURI(WithRootURI(
             Arguments(protocol, HTTPMethod, protection, suffixURI, kwargs)))))

(***************************************************************************)
(* Calling conventions of Python.                                          *)
(***************************************************************************)
\* kwargs without the keys that the callee binds to its own parameters
Without(kwargs, keys) == [k \in DOMAIN kwargs \ keys |-> kwargs[k]]

\* self._undifferentiatied(protocol,HTTPMethod,protection,suffixURI,
\* name=value,...,**kwargs): a keyword given twice raises TypeError before
\* the callee runs.
Undifferentiated(protocol, HTTPMethod, protection, suffixURI, named, kwargs) ==
    IF DOMAIN named \cap DOMAIN kwargs # {}
    THEN Raised("TypeError", <<>>)
    ELSE _undifferentiatied(protocol, HTTPMethod, protection, suffixURI,
                            named @@ kwargs)

NoKeywords == <<>>

\* A faulty variant of the token, which leaves out the three zeros.
DateTokenOfSeconds(x) == PyStr("/Date(" \o Fmt(x) \o "-0000)/")

\* '/Date({timestamp}000-0000)/'.format(timestamp=x)
DateToken(x) == PyStr("/Date(" \o Fmt(x) \o "000-0000)/")

(***************************************************************************)
(* The public methods (lines 127-806).                                     *)
(***************************************************************************)
authenticateStaffUser(domain, username, password, kwargs) ==
    LET data == PyDict(<< <<"Domain", domain>>, <<"Username", username>>,
                          <<"Password", password>> >>)
    IN  Undifferentiated("https", "POST", "protected", "authenticator/staff",
                         "data" :> data, kwargs)

bibGet(bibID, kwargs) ==
    Undifferentiated("http", "GET", "public", "bib/" \o Fmt(bibID),
                     NoKeywords, kwargs)

bibSearch(qualifierName, params, kwargs) ==
    Undifferentiated("http", "GET", "public",
                     "search/bibs/keyword/" \o Fmt(qualifierName),
                     "params" :> params, kwargs)

headingSearch(qualifierName, params, kwargs) ==
    Undifferentiated("http", "GET", "public",
                     "search/headings/" \o Fmt(qualifierName),
                     "params" :> params, kwargs)

collectionsGet(kwargs) ==
    Undifferentiated("http", "GET", "public", "collections", NoKeywords, kwargs)

bibHoldingsGet(bibID, kwargs) ==
    Undifferentiated("http", "GET", "public",
                     "bib/" \o Fmt(bibID) \o "/holdings", NoKeywords, kwargs)

holdRequestCancel(patronBarcode, patronPassword, requestID, workstationID, userID, kwargs) ==
    LET params == PyDict(<< <<"wsid", workstationID>>, <<"userid", userID>> >>)
        suffixURI == "patron/" \o Fmt(patronBarcode) \o "/holdrequests/"
                         \o Fmt(requestID) \o "/cancelled"
    IN  Undifferentiated("http", "PUT", "public", suffixURI,
                         ("patronPassword" :> patronPassword)
                             @@ ("params" :> params), kwargs)

\* A faulty variant of line 245, which drops the keywords of the caller.
holdRequestCancelAllWithoutKeywords(patronBarcode, patronPassword, workstationID, userID, kwargs) ==
    holdRequestCancel(patronBarcode, patronPassword, PyInt(0), workstationID,
                      userID, NoKeywords)

holdRequestCancelAllForPatron(patronBarcode, patronPassword, workstationID, userID, kwargs) ==
    holdRequestCancel(patronBarcode, patronPassword, PyInt(0), workstationID,
                      userID, kwargs)

holdRequestCreate(patronID, bibID, pickupOrgID, workstationID, userID, requestingOrgID, kwargs) ==
    LET data == PyDict(<<
            <<"PatronID", patronID>>,
            <<"BibID", bibID>>,
            <<"ItemBarcode", Get(kwargs, "itemBarcode", PyStr(""))>>,
            <<"VolumeNumber", Get(kwargs, "volumeNumber", PyStr(""))>>,
            <<"Designation", Get(kwargs, "designation", PyStr(""))>>,
            <<"PickupOrgID", pickupOrgID>>,
            <<"IsBorrowByMail", Get(kwargs, "isBorrowByMail", PyStr("0"))>>,
            <<"PatronNotes", Get(kwargs, "patronNotes", PyStr(""))>>,
            <<"Answer", Get(kwargs, "answer", PyNone)>>,
            <<"ActivationDate",
              DateToken(Get(kwargs, "activationDate", PyStr(IntToStr(clock))))>>,
            <<"UserID", userID>>,
            <<"RequestingOrgID", requestingOrgID>>,
            <<"TargetGUID", Get(kwargs, "targetGUID", PyStr(""))>> >>)
    IN  Undifferentiated("http", "POST", "public", "holdrequest",
                         "data" :> data, kwargs)

holdRequestReply(requestGUID, txnGroupQualifier, txnQualifier, requestingOrgID, answer, state, kwargs) ==
    LET data == PyDict(<<
            <<"TxnGroupQualifier", txnGroupQualifier>>,
            <<"TxnQualifier", txnQualifier>>,
            <<"RequestingOrgID", requestingOrgID>>,
            <<"Answer", answer>>,
            <<"State", state>> >>)
    IN  Undifferentiated("http", "PUT", "public",
                         "holdrequest/" \o Fmt(requestGUID),
                         "data" :> data, kwargs)

holdRequestSuspend(patronBarcode, patronPassword, requestID, activity, userID, activationDate, kwargs) ==
    LET suffixURI == "patron/" \o Fmt(patronBarcode) \o "/holdrequests/"
                         \o Fmt(requestID) \o "/" \o Fmt(activity)
        data == PyDict(<< <<"UserID", userID>>,
                          <<"ActivationDate", DateToken(activationDate)>> >>)
    IN  Undifferentiated("http", "PUT", "public", suffixURI,
                         ("patronPassword" :> patronPassword)
                             @@ ("data" :> data), kwargs)

\* Line 332 gives holdRequestSuspend five positional arguments: its sixth
\* parameter, activationDate, is bound from kwargs, and the call raises
\* TypeError when kwargs does not hold it.
holdRequestSuspendAllForPatron(patronBarcode, patronPassword, activity, userID, kwargs) ==
    IF "activationDate" \in DOMAIN kwargs
    THEN holdRequestSuspend(patronBarcode, patronPassword, PyStr("0"), activity,
                            userID, kwargs["activationDate"],
                            Without(kwargs, {"activationDate"}))
    ELSE Raised("TypeError", <<>>)

itemRenew(patronBarcode, patronPassword, itemID, logonBranchID, logonUserID, logonWorkstationID, ignoreOverrideErrors, kwargs) ==
    LET suffixURI == "patron/" \o Fmt(patronBarcode) \o "/itemsout/"
                         \o Fmt(itemID)
        data == PyDict(<<
            <<"Action", PyStr("renew")>>,
            <<"LogonBranchID", logonBranchID>>,
            <<"LogonUserID", logonUserID>>,
            <<"LogonWorkstationID", logonWorkstationID>>,
            <<"RenewData",
              PyDict(<< <<"IgnoreOverrideErrors", ignoreOverrideErrors>> >>)>> >>)
    IN  Undifferentiated("http", "PUT", "public", suffixURI,
                         ("patronPassword" :> patronPassword)
                             @@ ("data" :> data), kwargs)

\* Line 359 calls the bound method self.itemRenew with self as its first
\* argument: eight positional arguments for the seven parameters itemRenew
\* has besides self, which raises TypeError.
itemRenewAllForPatron(patronBarcode, patronPassword, logonBranchID, logonUserID, logonWorkstationID, ignoreOverrideErrors, kwargs) ==
    LET positional == <<self, patronBarcode, patronPassword, PyInt(0),
                        logonBranchID, logonUserID, logonWorkstationID,
                        ignoreOverrideErrors>>
    IN  IF Len(positional) # 7 THEN Raised("TypeError", <<>>)
        ELSE itemRenew(positional[1], positional[2], positional[3],
                       positional[4], positional[5], positional[6],
                       positional[7], kwargs)

limitFiltersGet(kwargs) ==
    Undifferentiated("http", "GET", "public", "limitfilters", NoKeywords, kwargs)

notificationUpdate(accessToken, accessSecret, notificationTypeID, logonBranchID, logonUserID, logonWorkstationID, notificationStatusID, notificationDeliveryDate, deliveryOptionID, deliveryString, patronID, patronLanguageID, kwargs) ==
    LET suffixURI == Fmt(accessToken) \o "/notification/"
                         \o Fmt(notificationTypeID)
        data == PyDict(<<
            <<"LogonBranchID", logonBranchID>>,
            <<"LogonUserID", logonUserID>>,
            <<"LogonWorkstationID", logonWorkstationID>>,
            <<"ReportingOrgID", Get(kwargs, "reportingOrgID", PyNone)>>,
            <<"NotificationStatusID", notificationStatusID>>,
            <<"NotificationDeliveryDate", notificationDeliveryDate>>,
            <<"DeliveryOptionID", deliveryOptionID>>,
            <<"DeliveryString", deliveryString>>,
            <<"Details", Get(kwargs, "details", PyNone)>>,
            <<"PatronID", patronID>>,
            <<"PatronLanguageID", patronLanguageID>>,
            <<"ItemRecordID", Get(kwargs, "itemRecordID", PyNone)>> >>)
    IN  Undifferentiated("http", "PUT", "protected", suffixURI,
                         ("accessSecret" :> accessSecret) @@ ("data" :> data),
                         kwargs)

organizationsGet(tier, kwargs) ==
    Undifferentiated("http", "GET", "public", "organizations/" \o Fmt(tier),
                     NoKeywords, kwargs)

patronAccountGet(patronBarcode, patronPassword, status, kwargs) ==
    Undifferentiated("http", "GET", "public",
                     "patron/" \o Fmt(patronBarcode) \o "/account/" \o Fmt(status),
                     "patronPassword" :> patronPassword, kwargs)

patronAccountPay(accessToken, accessSecret, patronBarcode, chargeTxnID, txnAmount, paymentMethodID, workstationID, userID, kwargs) ==
    LET suffixURI == Fmt(accessToken) \o "/patron/" \o Fmt(patronBarcode)
                         \o "/account/" \o Fmt(chargeTxnID) \o "/pay"
        data == PyDict(<<
            <<"TxnAmount", txnAmount>>,
            <<"PaymentMethodID", paymentMethodID>>,
            <<"FreeTextNote", Get(kwargs, "freeTextNote", PyNone)>> >>)
        params == PyDict(<< <<"wsid", workstationID>>, <<"userid", userID>> >>)
    IN  Undifferentiated("https", "PUT", "protected", suffixURI,
                         ("accessSecret" :> accessSecret) @@ ("data" :> data)
                             @@ ("params" :> params), kwargs)

patronBasicDataGet(patronBarcode, patronPassword, kwargs) ==
    Undifferentiated("http", "GET", "public",
                     "patron/" \o Fmt(patronBarcode) \o "/basicdata",
                     "patronPassword" :> patronPassword, kwargs)

patronCirculateBlocksGet(patronBarcode, patronPassword, kwargs) ==
    Undifferentiated("http", "GET", "public",
                     "patron/" \o Fmt(patronBarcode) \o "/circulationblocks",
                     "patronPassword" :> patronPassword, kwargs)

createPatronBlocks(accessToken, accessSecret, patronBarcode, blockTypeID, blockValue, kwargs) ==
    LET suffixURI == Fmt(accessToken) \o "/patron/" \o Fmt(patronBarcode)
                         \o "/blocks"
        data == PyDict(<< <<"BlockTypeID", blockTypeID>>,
                          <<"BlockValue", blockValue>> >>)
    IN  Undifferentiated("https", "POST", "protected", suffixURI,
                         ("accessSecret" :> accessSecret) @@ ("data" :> data),
                         kwargs)

patronHoldRequestsGet(patronBarcode, patronPassword, status, kwargs) ==
    Undifferentiated("http", "GET", "public",
                     "patron/" \o Fmt(patronBarcode) \o "/holdrequests/"
                         \o Fmt(status),
                     "patronPassword" :> patronPassword, kwargs)

patronItemsOutGet(patronBarcode, patronPassword, status, kwargs) ==
    Undifferentiated("http", "GET", "public",
                     "patron/" \o Fmt(patronBarcode) \o "/itemsout/"
                         \o Fmt(status),
                     "patronPassword" :> patronPassword, kwargs)

patronMessagesGet(patronBarcode, patronPassword, kwargs) ==
    Undifferentiated("http", "GET", "public",
                     "patron/" \o Fmt(patronBarcode) \o "/messages",
                     "patronPassword" :> patronPassword, kwargs)

patronMessageUpdateStatus(patronBarcode, patronPassword, messageType, messageID, kwargs) ==
    Undifferentiated("http", "PUT", "public",
                     "patron/" \o Fmt(patronBarcode) \o "/messages/"
                         \o Fmt(messageType) \o "/" \o Fmt(messageID),
                     "patronPassword" :> patronPassword, kwargs)

patronMessageDelete(patronBarcode, patronPassword, messageType, messageID, kwargs) ==
    Undifferentiated("http", "DELETE", "public",
                     "patron/" \o Fmt(patronBarcode) \o "/messages/"
                         \o Fmt(messageType) \o "/" \o Fmt(messageID),
                     "patronPassword" :> patronPassword, kwargs)

patronPreferencesGet(patronBarcode, patronPassword, kwargs) ==
    Undifferentiated("http", "GET", "public",
                     "patron/" \o Fmt(patronBarcode) \o "/preferences",
                     "patronPassword" :> patronPassword, kwargs)

patronReadingHistoryClear(patronBarcode, patronPassword, kwargs) ==
    Undifferentiated("http", "DELETE", "public",
                     "patron/" \o Fmt(patronBarcode) \o "/readinghistory",
                     "patronPassword" :> patronPassword, kwargs)

patronRegistrationCreate(logonBranchID, logonUserID, logonWorkstationID, patronBranchID, nameFirst, nameLast, kwargs) ==
    LET data == PyDict(<<
            <<"LogonBranchID", logonBranchID>>,
            <<"LogonUserID", logonUserID>>,
            <<"LogonWorkstationID", logonWorkstationID>>,
            <<"PatronBranchID", patronBranchID>>,
            <<"PostalCode", Get(kwargs, "postalCode", PyNone)>>,
            <<"ZipPlusFour", Get(kwargs, "zipPlusFour", PyNone)>>,
            <<"City", Get(kwargs, "city", PyNone)>>,
            <<"State", Get(kwargs, "state", PyNone)>>,
            <<"County", Get(kwargs, "county", PyNone)>>,
            <<"CountryID", Get(kwargs, "countryID", PyNone)>>,
            <<"StreetOne", Get(kwargs, "streetOne", PyNone)>>,
            <<"StreetTwo", Get(kwargs, "streetTwo", PyNone)>>,
            <<"NameFirst", nameFirst>>,
            <<"NameLast", nameLast>>,
            <<"NameMiddle", Get(kwargs, "nameMiddle", PyNone)>>,
            <<"User1", Get(kwargs, "user1", PyNone)>>,
            <<"User2", Get(kwargs, "user2", PyNone)>>,
            <<"User3", Get(kwargs, "user3", PyNone)>>,
            <<"User4", Get(kwargs, "user4", PyNone)>>,
            <<"User5", Get(kwargs, "user5", PyNone)>>,
            <<"Gender", Get(kwargs, "gender", PyNone)>>,
            <<"Birthdate", Get(kwargs, "birthdate", PyNone)>>,
            <<"PhoneVoice1", Get(kwargs, "phoneVoice1", PyNone)>>,
            <<"PhoneVoice2", Get(kwargs, "phoneVoice2", PyNone)>>,
            <<"EmailAddress", Get(kwargs, "emailAddress", PyNone)>>,
            <<"LanguageID", Get(kwargs, "languageID", PyNone)>>,
            <<"DeliveryOptionID", Get(kwargs, "deliveryOptionID", PyNone)>>,
            <<"UserName", Get(kwargs, "username", PyNone)>>,
            <<"Password", Get(kwargs, "password", PyNone)>>,
            <<"Password2", Get(kwargs, "password2", PyNone)>>,
            <<"AltEmailAddress", Get(kwargs, "altEmailAddress", PyNone)>>,
            <<"PhoneVoice3", Get(kwargs, "phoneVoice3", PyNone)>>,
            <<"Phone1CarrierID", Get(kwargs, "phone1CarrierID", PyNone)>>,
            <<"Phone2CarrierID", Get(kwargs, "phone2CarrierID", PyNone)>>,
            <<"Phone3CarrierID", Get(kwargs, "phone3CarrierID", PyNone)>>,
            <<"Enable", Get(kwargs, "enable", PyNone)>>,
            <<"TxtPhoneNumber", Get(kwargs, "txtPhoneNumber", PyNone)>>,
            <<"Barcode", Get(kwargs, "barcode", PyNone)>>,
            <<"EReceiptOPtionID", Get(kwargs, "EReceiptOPtionID", PyNone)>> >>)
    IN  Undifferentiated("http", "POST", "public", "patron",
                         "data" :> data, kwargs)

patronRenewBlocksGet(accessToken, accessSecret, patronID, kwargs) ==
    Undifferentiated("https", "GET", "protected",
                     Fmt(accessToken) \o "/circulation/patron/" \o Fmt(patronID)
                         \o "/renewblocks",
                     "accessSecret" :> accessSecret, kwargs)

patronSavedSearchesGet(patronBarcode, patronPassword, kwargs) ==
    Undifferentiated("http", "GET", "public",
                     "patron/" \o Fmt(patronBarcode) \o "/savedsearches",
                     "patronPassword" :> patronPassword, kwargs)

patronReadingHistoryGet(patronBarcode, patronPassword, page, rowsPerPage, kwargs) ==
    LET params == PyDict(<< <<"page", page>>, <<"rowsperpage", rowsPerPage>> >>)
    IN  Undifferentiated("http", "GET", "public",
                         "patron/" \o Fmt(patronBarcode) \o "/readinghistory",
                         ("patronPassword" :> patronPassword)
                             @@ ("params" :> params), kwargs)

patronSearch(accessToken, accessSecret, params, kwargs) ==
    Undifferentiated("https", "GET", "protected",
                     Fmt(accessToken) \o "/search/patrons/Boolean",
                     ("accessSecret" :> accessSecret) @@ ("params" :> params),
                     kwargs)

patronUpdate(patronBarcode, patronPassword, logonBranchID, logonUserID, logonWorkstationID, kwargs) ==
    LET data == PyDict(<<
            <<"LogonBranchID", logonBranchID>>,
            <<"LogonUserID", logonUserID>>,
            <<"LogonWorkstationID", logonWorkstationID>>,
            <<"ReadingListFlag", Get(kwargs, "readingListFlag", PyNone)>>,
            <<"EmailFormat", Get(kwargs, "emailFormat", PyNone)>>,
            <<"DeliveryOption", Get(kwargs, "deliveryOption", PyNone)>>,
            <<"EmailAddress", Get(kwargs, "emailAddress", PyNone)>>,
            <<"PhoneVoice1", Get(kwargs, "phoneVoice1", PyNone)>>,
            <<"Password", Get(kwargs, "password", PyNone)>> >>)
    IN  Undifferentiated("http", "PUT", "public",
                         "patron/" \o Fmt(patronBarcode),
                         ("patronPassword" :> patronPassword)
                             @@ ("data" :> data), kwargs)

patronValidate(patronBarcode, patronPassword, kwargs) ==
    Undifferentiated("http", "GET", "public", "patron/" \o Fmt(patronBarcode),
                     "patronPassword" :> patronPassword, kwargs)

sortOptionsGet(kwargs) ==
    Undifferentiated("http", "GET", "public", "sortoptions", NoKeywords, kwargs)

synchItemsByBibIDGet(accessToken, accessSecret, bibID, kwargs) ==
    Undifferentiated("https", "GET", "protected",
                     Fmt(accessToken) \o "/synch/items/bibid/" \o Fmt(bibID),
                     "accessSecret" :> accessSecret, kwargs)

synchTasksCheckout(accessToken, accessSecret, workstationID, userID, vendorID, vendorContractID, uniqueRecordID, patronBarcode, itemExpireDateTime, transactionDateTime, kwargs) ==
    LET params == PyDict(<< <<"wsid", workstationID>>, <<"userid", userID>> >>)
        data == PyDict(<<
            <<"VendorID", vendorID>>,
            <<"VendorContractID", vendorContractID>>,
            <<"UniqueRecordID", uniqueRecordID>>,
            <<"PatronBarcode", patronBarcode>>,
            <<"ItemExpireDateTime", DateToken(itemExpireDateTime)>>,
            <<"TransactionDateTime", DateToken(transactionDateTime)>> >>)
        suffixURI == Fmt(accessToken) \o "/synch/tasks/checkout"
    IN  Undifferentiated("https", "PUT", "protected", suffixURI,
                         ("accessSecret" :> accessSecret)
                             @@ ("params" :> params) @@ ("data" :> data),
                         kwargs)

(***************************************************************************)
(* The client and the values its callers give.                             *)
(***************************************************************************)
\* __init__ (lines 67-71); the session is the object requests.Session()
\* returned.
PAPI(accessKey, accessKeyID, hostname) ==
    [_accessKey |-> accessKey, _accessKeyID |-> accessKeyID,
     _hostname |-> hostname, _session |-> "Session#1"]

AccessKeys == {PyStr("KEY-1")}
AccessKeyIDs == {PyStr("apiuser")}
Hostnames == {PyStr("h.org")}

Names == {PyStr("Bar")}
Passwords == {PyStr("P1")}
Barcodes == {PyStr("B1")}
RecordIDs == {PyStr("353063")}
RequestIDs == {PyStr("311260")}
StationIDs == {PyStr("1")}
UserIDs == {PyStr("2")}
BranchIDs == {PyStr("3")}
Flags == {PyStr("0")}
Activities == {PyStr("active")}
Statuses == {PyStr("all")}
Tiers == {PyStr("all"), PyStr("sys tem")}
Qualifiers == {PyStr("su")}
Epochs == {PyStr("1491058")}
\* The delivery dates a caller gives: epoch seconds, or the token of the
\* example of notificationUpdate (line 388).
DeliveryDates == Epochs \cup {PyStr("/Date(1391058000000-0500)/")}
Tokens == {PyStr("T0")}
Secrets == {PyStr("S3")}

\* The params mappings a caller gives, as the items their iteration yields.
ParamsGiven ==
    {PyDict(<<>>),
     PyDict(<< <<"start point", PyStr("civil war")>> >>),
     PyDict(<< <<"q", PyStr(" a  b ")>>, <<"numterms", PyStr("10")>> >>),
     PyDict(<< <<"q", PyStr("PATNL=Bar&x")>>, <<"", PyStr("")>> >>)}

\* Values a caller gives as params that are not mappings of text to text:
\* an integer, None, a list of texts and a mapping as the value of a key,
\* and a text in the place of the mapping.
ParamsMalformed ==
    {PyDict(<< <<"q", PyInt(10)>> >>),
     PyDict(<< <<"q", PyNone>> >>),
     PyDict(<< <<"q", PyList(<<PyStr("war"), PyStr(" "), PyStr("a&b=c")>>)>> >>),
     PyDict(<< <<"q", PyDict(<< <<"k1", PyStr("v")>>, <<" ", PyStr("w")>> >>)>> >>),
     PyStr("q=war")}

\* The keyword arguments a caller adds to the required ones: none, or a
\* token, a secret and two overrides of the path.
KeywordsFew ==
    {<<>>,
     ("accessToken" :> PyStr("T9")) @@ ("accessSecret" :> PyStr("S9"))
         @@ ("version" :> PyStr("v2")) @@ ("orgID" :> PyStr("2"))}

KeywordsFull ==
    KeywordsFew \cup
    {"version" :> PyStr("v2"),
     "langID" :> PyStr("3084"),
     "appID" :> PyStr("101"),
     "orgID" :> PyStr("2"),
     ("version" :> PyStr("v2")) @@ ("langID" :> PyStr("3084"))
         @@ ("appID" :> PyStr("101")) @@ ("orgID" :> PyStr("2")),
     "accessToken" :> PyStr("T9"),
     "accessToken" :> PyStr(""),
     "accessSecret" :> PyStr("S9"),
     "accessSecret" :> PyStr("")}

\* The methods of the staff take accessToken and accessSecret as parameters
\* of their own: a keyword of that name is that parameter.
KeywordsOfStaff ==
    {Without(k, {"accessToken", "accessSecret"}) : k \in KeywordsFew}

KeywordsOfHolds ==
    {"activationDate" :> PyStr("1491059"),
     ("activationDate" :> PyStr("1491059")) @@ ("accessToken" :> PyStr("T9"))
         @@ ("appID" :> PyStr("101"))}

(***************************************************************************)
(* The state machine.                                                      *)
(***************************************************************************)
NoCall ==
    [op |-> "", args |-> <<>>, kwargs |-> <<>>, at |-> 0, outcome |-> "none",
     error |-> "", sends |-> 0, printed |-> <<>>, request |-> NoRequest,
     locals |-> <<>>, reply |-> <<>>, returned |-> <<>>]

Init ==
    /\ \E accessKey \in AccessKeys, accessKeyID \in AccessKeyIDs,
          hostname \in Hostnames : self = PAPI(accessKey, accessKeyID, hostname)
    /\ clock = 0
    /\ last = NoCall

\* Time passes between calls.
Tick ==
    /\ clock < MaxClock
    /\ clock' = clock + 1
    /\ UNCHANGED <<self, last>>

\* The mark of a required parameter that the caller left out.
Omitted == [t |-> "omitted"]

\* The arguments args with the i-th left out (none for i = 0).  The calls
\* of the model leave out the first or the last parameter of a method.
Omit(args, i) == [j \in DOMAIN args |-> IF j = i THEN Omitted ELSE args[j]]

\* A faulty variant of the binding, as if every parameter had a default.
BindDefaulted(args, result) == result

\* The call of a method whose parameters have no defaults: a parameter
\* left out raises TypeError before the body of the method runs.
Bind(args, result) ==
    IF \E i \in DOMAIN args : args[i] = Omitted
    THEN Raised("TypeError", <<>>)
    ELSE result

\* What self._session.send does with the request: it returns a response,
\* of whatever status code, or it raises.
Replies ==
    {[raises |-> "", status_code |-> 200],
     [raises |-> "", status_code |-> 500],
     [raises |-> "ConnectionError", status_code |-> 0]}

\* A faulty variant of the return, which raises for a status code of 400
\* and above.
RepliedForStatus(result, reply) ==
    IF result.sends = 0
    THEN [outcome |-> result.outcome, error |-> result.error,
          reply |-> <<>>, returned |-> <<>>]
    ELSE IF reply.raises # ""
    THEN [outcome |-> "raised", error |-> reply.raises,
          reply |-> <<reply>>, returned |-> <<>>]
    ELSE IF reply.status_code >= 400
    THEN [outcome |-> "raised", error |-> "HTTPError",
          reply |-> <<reply>>, returned |-> <<>>]
    ELSE [outcome |-> "returned", error |-> "",
          reply |-> <<reply>>, returned |-> <<reply>>]

\* Line 125 and the return statement of the public method: a call that
\* reached send ends as send ends, with its response returned or its error
\* raised; a call that raised before has not invoked send.
Replied(result, reply) ==
    IF result.sends = 0
    THEN [outcome |-> result.outcome, error |-> result.error,
          reply |-> <<>>, returned |-> <<>>]
    ELSE IF reply.raises # ""
    THEN [outcome |-> "raised", error |-> reply.raises,
          reply |-> <<reply>>, returned |-> <<>>]
    ELSE [outcome |-> "returned", error |-> "",
          reply |-> <<reply>>, returned |-> <<reply>>]

\* The record of a call that ended as ended says.
Record(op, args, kwargs, result, ended) ==
    [op |-> op, args |-> args, kwargs |-> kwargs, at |-> clock,
     outcome |-> ended.outcome, error |-> ended.error,
     sends |-> result.sends, printed |-> result.printed,
     request |-> result.request, locals |-> result.locals,
     reply |-> ended.reply, returned |-> ended.returned]

\* A faulty variant of a call, which opens a session of its own.
CalledWithNewSession(op, args, kwargs, result) ==
    \E reply \in Replies :
        /\ last' = Record(op, args, kwargs, result, Replied(result, reply))
        /\ self' = [self EXCEPT !._session = "Session#2"]
        /\ UNCHANGED clock

\* A public method was called with args and kwargs at the time of the clock,
\* ran as result says and ended with the reply of send.  No method assigns
\* to an attribute of self.
Called(op, args, kwargs, result) ==
    \E reply \in Replies :
        /\ last' = Record(op, args, kwargs, result, Replied(result, reply))
        /\ UNCHANGED <<self, clock>>

authenticateStaffUserCall ==
    \E domain \in Names, username \in Names, password \in Passwords, kwargs \in KeywordsFew, omitted \in {0, 1, 3} :
        /\ omitted # 0 => kwargs = NoKeywords
        /\ Called("authenticateStaffUser", Omit(<<domain, username, password>>, omitted), kwargs,
                  Bind(Omit(<<domain, username, password>>, omitted),
                       authenticateStaffUser(domain, username, password, kwargs)))

bibGetCall ==
    \E bibID \in RecordIDs, kwargs \in KeywordsFew, omitted \in {0, 1} :
        /\ omitted # 0 => kwargs = NoKeywords
        /\ Called("bibGet", Omit(<<bibID>>, omitted), kwargs,
                  Bind(Omit(<<bibID>>, omitted),
                       bibGet(bibID, kwargs)))

bibSearchCall ==
    \E qualifierName \in Qualifiers, params \in ParamsGiven \cup ParamsMalformed, kwargs \in KeywordsFew, omitted \in {0, 1, 2} :
        /\ omitted # 0 => kwargs = NoKeywords
        /\ Called("bibSearch", Omit(<<qualifierName, params>>, omitted), kwargs,
                  Bind(Omit(<<qualifierName, params>>, omitted),
                       bibSearch(qualifierName, params, kwargs)))

headingSearchCall ==
    \E qualifierName \in Qualifiers, params \in ParamsGiven, kwargs \in KeywordsFew, omitted \in {0, 1, 2} :
        /\ omitted # 0 => kwargs = NoKeywords
        /\ Called("headingSearch", Omit(<<qualifierName, params>>, omitted), kwargs,
                  Bind(Omit(<<qualifierName, params>>, omitted),
                       headingSearch(qualifierName, params, kwargs)))

collectionsGetCall ==
    \E kwargs \in KeywordsFull :
        Called("collectionsGet", <<>>, kwargs,
               collectionsGet(kwargs))

bibHoldingsGetCall ==
    \E bibID \in RecordIDs, kwargs \in KeywordsFew, omitted \in {0, 1} :
        /\ omitted # 0 => kwargs = NoKeywords
        /\ Called("bibHoldingsGet", Omit(<<bibID>>, omitted), kwargs,
                  Bind(Omit(<<bibID>>, omitted),
                       bibHoldingsGet(bibID, kwargs)))

holdRequestCancelCall ==
    \E patronBarcode \in Barcodes, patronPassword \in Passwords, requestID \in RequestIDs, workstationID \in StationIDs, userID \in UserIDs, kwargs \in KeywordsFew, omitted \in {0, 1, 5} :
        /\ omitted # 0 => kwargs = NoKeywords
        /\ Called("holdRequestCancel", Omit(<<patronBarcode, patronPassword, requestID, workstationID, userID>>, omitted), kwargs,
                  Bind(Omit(<<patronBarcode, patronPassword, requestID, workstationID, userID>>, omitted),
                       holdRequestCancel(patronBarcode, patronPassword, requestID, workstationID, userID, kwargs)))

holdRequestCancelAllForPatronCall ==
    \E patronBarcode \in Barcodes, patronPassword \in Passwords, workstationID \in StationIDs, userID \in UserIDs, kwargs \in KeywordsFew, omitted \in {0, 1, 4} :
        /\ omitted # 0 => kwargs = NoKeywords
        /\ Called("holdRequestCancelAllForPatron", Omit(<<patronBarcode, patronPassword, workstationID, userID>>, omitted), kwargs,
                  Bind(Omit(<<patronBarcode, patronPassword, workstationID, userID>>, omitted),
                       holdRequestCancelAllForPatron(patronBarcode, patronPassword, workstationID, userID, kwargs)))

holdRequestCreateCall ==
    \E patronID \in RecordIDs, bibID \in RecordIDs, pickupOrgID \in BranchIDs, workstationID \in StationIDs, userID \in UserIDs, requestingOrgID \in BranchIDs, kwargs \in KeywordsFew \cup KeywordsOfHolds, omitted \in {0, 1, 6} :
        /\ omitted # 0 => kwargs = NoKeywords
        /\ Called("holdRequestCreate", Omit(<<patronID, bibID, pickupOrgID, workstationID, userID, requestingOrgID>>, omitted), kwargs,
                  Bind(Omit(<<patronID, bibID, pickupOrgID, workstationID, userID, requestingOrgID>>, omitted),
                       holdRequestCreate(patronID, bibID, pickupOrgID, workstationID, userID, requestingOrgID, kwargs)))

holdRequestReplyCall ==
    \E requestGUID \in RecordIDs, txnGroupQualifier \in Names, txnQualifier \in Names, requestingOrgID \in BranchIDs, answer \in Flags, state \in Flags, kwargs \in KeywordsFew, omitted \in {0, 1, 6} :
        /\ omitted # 0 => kwargs = NoKeywords
        /\ Called("holdRequestReply", Omit(<<requestGUID, txnGroupQualifier, txnQualifier, requestingOrgID, answer, state>>, omitted), kwargs,
                  Bind(Omit(<<requestGUID, txnGroupQualifier, txnQualifier, requestingOrgID, answer, state>>, omitted),
                       holdRequestReply(requestGUID, txnGroupQualifier, txnQualifier, requestingOrgID, answer, state, kwargs)))

holdRequestSuspendCall ==
    \E patronBarcode \in Barcodes, patronPassword \in Passwords, requestID \in RequestIDs, activity \in Activities, userID \in UserIDs, activationDate \in Epochs, kwargs \in KeywordsFew, omitted \in {0, 1, 6} :
        /\ omitted # 0 => kwargs = NoKeywords
        /\ Called("holdRequestSuspend", Omit(<<patronBarcode, patronPassword, requestID, activity, userID, activationDate>>, omitted), kwargs,
                  Bind(Omit(<<patronBarcode, patronPassword, requestID, activity, userID, activationDate>>, omitted),
                       holdRequestSuspend(patronBarcode, patronPassword, requestID, activity, userID, activationDate, kwargs)))

holdRequestSuspendAllForPatronCall ==
    \E patronBarcode \in Barcodes, patronPassword \in Passwords, activity \in Activities, userID \in UserIDs, kwargs \in KeywordsFew \cup KeywordsOfHolds, omitted \in {0, 1, 4} :
        /\ omitted # 0 => kwargs = NoKeywords
        /\ Called("holdRequestSuspendAllForPatron", Omit(<<patronBarcode, patronPassword, activity, userID>>, omitted), kwargs,
                  Bind(Omit(<<patronBarcode, patronPassword, activity, userID>>, omitted),
                       holdRequestSuspendAllForPatron(patronBarcode, patronPassword, activity, userID, kwargs)))

itemRenewCall ==
    \E patronBarcode \in Barcodes, patronPassword \in Passwords, itemID \in RecordIDs, logonBranchID \in BranchIDs, logonUserID \in UserIDs, logonWorkstationID \in StationIDs, ignoreOverrideErrors \in Flags, kwargs \in KeywordsFew, omitted \in {0, 1, 7} :
        /\ omitted # 0 => kwargs = NoKeywords
        /\ Called("itemRenew", Omit(<<patronBarcode, patronPassword, itemID, logonBranchID, logonUserID, logonWorkstationID, ignoreOverrideErrors>>, omitted), kwargs,
                  Bind(Omit(<<patronBarcode, patronPassword, itemID, logonBranchID, logonUserID, logonWorkstationID, ignoreOverrideErrors>>, omitted),
                       itemRenew(patronBarcode, patronPassword, itemID, logonBranchID, logonUserID, logonWorkstationID, ignoreOverrideErrors, kwargs)))

itemRenewAllForPatronCall ==
    \E patronBarcode \in Barcodes, patronPassword \in Passwords, logonBranchID \in BranchIDs, logonUserID \in UserIDs, logonWorkstationID \in StationIDs, ignoreOverrideErrors \in Flags, kwargs \in KeywordsFew, omitted \in {0, 1, 6} :
        /\ omitted # 0 => kwargs = NoKeywords
        /\ Called("itemRenewAllForPatron", Omit(<<patronBarcode, patronPassword, logonBranchID, logonUserID, logonWorkstationID, ignoreOverrideErrors>>, omitted), kwargs,
                  Bind(Omit(<<patronBarcode, patronPassword, logonBranchID, logonUserID, logonWorkstationID, ignoreOverrideErrors>>, omitted),
                       itemRenewAllForPatron(patronBarcode, patronPassword, logonBranchID, logonUserID, logonWorkstationID, ignoreOverrideErrors, kwargs)))

limitFiltersGetCall ==
    \E kwargs \in KeywordsFew :
        Called("limitFiltersGet", <<>>, kwargs,
               limitFiltersGet(kwargs))

notificationUpdateCall ==
    \E accessToken \in Tokens, accessSecret \in Secrets, notificationTypeID \in Flags, logonBranchID \in BranchIDs, logonUserID \in UserIDs, logonWorkstationID \in StationIDs, notificationStatusID \in Flags, notificationDeliveryDate \in DeliveryDates, deliveryOptionID \in Flags, deliveryString \in Names, patronID \in RecordIDs, patronLanguageID \in Flags, kwargs \in KeywordsOfStaff \cup {"reportingOrgID" :> PyStr("3")}, omitted \in {0, 1, 12} :
        /\ omitted # 0 => kwargs = NoKeywords
        /\ Called("notificationUpdate", Omit(<<accessToken, accessSecret, notificationTypeID, logonBranchID, logonUserID, logonWorkstationID, notificationStatusID, notificationDeliveryDate, deliveryOptionID, deliveryString, patronID, patronLanguageID>>, omitted), kwargs,
                  Bind(Omit(<<accessToken, accessSecret, notificationTypeID, logonBranchID, logonUserID, logonWorkstationID, notificationStatusID, notificationDeliveryDate, deliveryOptionID, deliveryString, patronID, patronLanguageID>>, omitted),
                       notificationUpdate(accessToken, accessSecret, notificationTypeID, logonBranchID, logonUserID, logonWorkstationID, notificationStatusID, notificationDeliveryDate, deliveryOptionID, deliveryString, patronID, patronLanguageID, kwargs)))

organizationsGetCall ==
    \E tier \in Tiers, kwargs \in KeywordsFew, omitted \in {0, 1} :
        /\ omitted # 0 => kwargs = NoKeywords
        /\ Called("organizationsGet", Omit(<<tier>>, omitted), kwargs,
                  Bind(Omit(<<tier>>, omitted),
                       organizationsGet(tier, kwargs)))

patronAccountGetCall ==
    \E patronBarcode \in Barcodes, patronPassword \in Passwords, status \in Statuses, kwargs \in KeywordsFew, omitted \in {0, 1, 3} :
        /\ omitted # 0 => kwargs = NoKeywords
        /\ Called("patronAccountGet", Omit(<<patronBarcode, patronPassword, status>>, omitted), kwargs,
                  Bind(Omit(<<patronBarcode, patronPassword, status>>, omitted),
                       patronAccountGet(patronBarcode, patronPassword, status, kwargs)))

patronAccountPayCall ==
    \E accessToken \in Tokens, accessSecret \in Secrets, patronBarcode \in Barcodes, chargeTxnID \in RecordIDs, txnAmount \in Flags, paymentMethodID \in Flags, workstationID \in StationIDs, userID \in UserIDs, kwargs \in KeywordsOfStaff \cup {"freeTextNote" :> PyStr("a note")}, omitted \in {0, 1, 8} :
        /\ omitted # 0 => kwargs = NoKeywords
        /\ Called("patronAccountPay", Omit(<<accessToken, accessSecret, patronBarcode, chargeTxnID, txnAmount, paymentMethodID, workstationID, userID>>, omitted), kwargs,
                  Bind(Omit(<<accessToken, accessSecret, patronBarcode, chargeTxnID, txnAmount, paymentMethodID, workstationID, userID>>, omitted),
                       patronAccountPay(accessToken, accessSecret, patronBarcode, chargeTxnID, txnAmount, paymentMethodID, workstationID, userID, kwargs)))

patronBasicDataGetCall ==
    \E patronBarcode \in Barcodes, patronPassword \in Passwords, kwargs \in KeywordsFull, omitted \in {0, 1, 2} :
        /\ omitted # 0 => kwargs = NoKeywords
        /\ Called("patronBasicDataGet", Omit(<<patronBarcode, patronPassword>>, omitted), kwargs,
                  Bind(Omit(<<patronBarcode, patronPassword>>, omitted),
                       patronBasicDataGet(patronBarcode, patronPassword, kwargs)))

patronCirculateBlocksGetCall ==
    \E patronBarcode \in Barcodes, patronPassword \in Passwords, kwargs \in KeywordsFew, omitted \in {0, 1, 2} :
        /\ omitted # 0 => kwargs = NoKeywords
        /\ Called("patronCirculateBlocksGet", Omit(<<patronBarcode, patronPassword>>, omitted), kwargs,
                  Bind(Omit(<<patronBarcode, patronPassword>>, omitted),
                       patronCirculateBlocksGet(patronBarcode, patronPassword, kwargs)))

createPatronBlocksCall ==
    \E accessToken \in Tokens, accessSecret \in Secrets, patronBarcode \in Barcodes, blockTypeID \in Flags, blockValue \in Names, kwargs \in KeywordsOfStaff, omitted \in {0, 1, 5} :
        /\ omitted # 0 => kwargs = NoKeywords
        /\ Called("createPatronBlocks", Omit(<<accessToken, accessSecret, patronBarcode, blockTypeID, blockValue>>, omitted), kwargs,
                  Bind(Omit(<<accessToken, accessSecret, patronBarcode, blockTypeID, blockValue>>, omitted),
                       createPatronBlocks(accessToken, accessSecret, patronBarcode, blockTypeID, blockValue, kwargs)))

patronHoldRequestsGetCall ==
    \E patronBarcode \in Barcodes, patronPassword \in Passwords, status \in Statuses, kwargs \in KeywordsFew, omitted \in {0, 1, 3} :
        /\ omitted # 0 => kwargs = NoKeywords
        /\ Called("patronHoldRequestsGet", Omit(<<patronBarcode, patronPassword, status>>, omitted), kwargs,
                  Bind(Omit(<<patronBarcode, patronPassword, status>>, omitted),
                       patronHoldRequestsGet(patronBarcode, patronPassword, status, kwargs)))

patronItemsOutGetCall ==
    \E patronBarcode \in Barcodes, patronPassword \in Passwords, status \in Statuses, kwargs \in KeywordsFew, omitted \in {0, 1, 3} :
        /\ omitted # 0 => kwargs = NoKeywords
        /\ Called("patronItemsOutGet", Omit(<<patronBarcode, patronPassword, status>>, omitted), kwargs,
                  Bind(Omit(<<patronBarcode, patronPassword, status>>, omitted),
                       patronItemsOutGet(patronBarcode, patronPassword, status, kwargs)))

patronMessagesGetCall ==
    \E patronBarcode \in Barcodes, patronPassword \in Passwords, kwargs \in KeywordsFew, omitted \in {0, 1, 2} :
        /\ omitted # 0 => kwargs = NoKeywords
        /\ Called("patronMessagesGet", Omit(<<patronBarcode, patronPassword>>, omitted), kwargs,
                  Bind(Omit(<<patronBarcode, patronPassword>>, omitted),
                       patronMessagesGet(patronBarcode, patronPassword, kwargs)))

patronMessageUpdateStatusCall ==
    \E patronBarcode \in Barcodes, patronPassword \in Passwords, messageType \in Names, messageID \in RecordIDs, kwargs \in KeywordsFew, omitted \in {0, 1, 4} :
        /\ omitted # 0 => kwargs = NoKeywords
        /\ Called("patronMessageUpdateStatus", Omit(<<patronBarcode, patronPassword, messageType, messageID>>, omitted), kwargs,
                  Bind(Omit(<<patronBarcode, patronPassword, messageType, messageID>>, omitted),
                       patronMessageUpdateStatus(patronBarcode, patronPassword, messageType, messageID, kwargs)))

patronMessageDeleteCall ==
    \E patronBarcode \in Barcodes, patronPassword \in Passwords, messageType \in Names, messageID \in RecordIDs, kwargs \in KeywordsFew, omitted \in {0, 1, 4} :
        /\ omitted # 0 => kwargs = NoKeywords
        /\ Called("patronMessageDelete", Omit(<<patronBarcode, patronPassword, messageType, messageID>>, omitted), kwargs,
                  Bind(Omit(<<patronBarcode, patronPassword, messageType, messageID>>, omitted),
                       patronMessageDelete(patronBarcode, patronPassword, messageType, messageID, kwargs)))

patronPreferencesGetCall ==
    \E patronBarcode \in Barcodes, patronPassword \in Passwords, kwargs \in KeywordsFew, omitted \in {0, 1, 2} :
        /\ omitted # 0 => kwargs = NoKeywords
        /\ Called("patronPreferencesGet", Omit(<<patronBarcode, patronPassword>>, omitted), kwargs,
                  Bind(Omit(<<patronBarcode, patronPassword>>, omitted),
                       patronPreferencesGet(patronBarcode, patronPassword, kwargs)))

patronReadingHistoryClearCall ==
    \E patronBarcode \in Barcodes, patronPassword \in Passwords, kwargs \in KeywordsFew, omitted \in {0, 1, 2} :
        /\ omitted # 0 => kwargs = NoKeywords
        /\ Called("patronReadingHistoryClear", Omit(<<patronBarcode, patronPassword>>, omitted), kwargs,
                  Bind(Omit(<<patronBarcode, patronPassword>>, omitted),
                       patronReadingHistoryClear(patronBarcode, patronPassword, kwargs)))

patronRegistrationCreateCall ==
    \E logonBranchID \in BranchIDs, logonUserID \in UserIDs, logonWorkstationID \in StationIDs, patronBranchID \in BranchIDs, nameFirst \in Names, nameLast \in Names, kwargs \in KeywordsFew \cup {"emailAddress" :> PyStr("foo@h.org")}, omitted \in {0, 1, 6} :
        /\ omitted # 0 => kwargs = NoKeywords
        /\ Called("patronRegistrationCreate", Omit(<<logonBranchID, logonUserID, logonWorkstationID, patronBranchID, nameFirst, nameLast>>, omitted), kwargs,
                  Bind(Omit(<<logonBranchID, logonUserID, logonWorkstationID, patronBranchID, nameFirst, nameLast>>, omitted),
                       patronRegistrationCreate(logonBranchID, logonUserID, logonWorkstationID, patronBranchID, nameFirst, nameLast, kwargs)))

patronRenewBlocksGetCall ==
    \E accessToken \in Tokens, accessSecret \in Secrets, patronID \in RecordIDs, kwargs \in KeywordsOfStaff, omitted \in {0, 1, 3} :
        /\ omitted # 0 => kwargs = NoKeywords
        /\ Called("patronRenewBlocksGet", Omit(<<accessToken, accessSecret, patronID>>, omitted), kwargs,
                  Bind(Omit(<<accessToken, accessSecret, patronID>>, omitted),
                       patronRenewBlocksGet(accessToken, accessSecret, patronID, kwargs)))

patronSavedSearchesGetCall ==
    \E patronBarcode \in Barcodes, patronPassword \in Passwords, kwargs \in KeywordsFew, omitted \in {0, 1, 2} :
        /\ omitted # 0 => kwargs = NoKeywords
        /\ Called("patronSavedSearchesGet", Omit(<<patronBarcode, patronPassword>>, omitted), kwargs,
                  Bind(Omit(<<patronBarcode, patronPassword>>, omitted),
                       patronSavedSearchesGet(patronBarcode, patronPassword, kwargs)))

patronReadingHistoryGetCall ==
    \E patronBarcode \in Barcodes, patronPassword \in Passwords, page \in Flags, rowsPerPage \in Flags, kwargs \in KeywordsFew, omitted \in {0, 1, 4} :
        /\ omitted # 0 => kwargs = NoKeywords
        /\ Called("patronReadingHistoryGet", Omit(<<patronBarcode, patronPassword, page, rowsPerPage>>, omitted), kwargs,
                  Bind(Omit(<<patronBarcode, patronPassword, page, rowsPerPage>>, omitted),
                       patronReadingHistoryGet(patronBarcode, patronPassword, page, rowsPerPage, kwargs)))

patronSearchCall ==
    \E accessToken \in Tokens, accessSecret \in Secrets, params \in ParamsGiven, kwargs \in KeywordsOfStaff, omitted \in {0, 1, 3} :
        /\ omitted # 0 => kwargs = NoKeywords
        /\ Called("patronSearch", Omit(<<accessToken, accessSecret, params>>, omitted), kwargs,
                  Bind(Omit(<<accessToken, accessSecret, params>>, omitted),
                       patronSearch(accessToken, accessSecret, params, kwargs)))

patronUpdateCall ==
    \E patronBarcode \in Barcodes, patronPassword \in Passwords, logonBranchID \in BranchIDs, logonUserID \in UserIDs, logonWorkstationID \in StationIDs, kwargs \in KeywordsFew \cup {"emailFormat" :> PyStr("2")}, omitted \in {0, 1, 5} :
        /\ omitted # 0 => kwargs = NoKeywords
        /\ Called("patronUpdate", Omit(<<patronBarcode, patronPassword, logonBranchID, logonUserID, logonWorkstationID>>, omitted), kwargs,
                  Bind(Omit(<<patronBarcode, patronPassword, logonBranchID, logonUserID, logonWorkstationID>>, omitted),
                       patronUpdate(patronBarcode, patronPassword, logonBranchID, logonUserID, logonWorkstationID, kwargs)))

patronValidateCall ==
    \E patronBarcode \in Barcodes, patronPassword \in Passwords, kwargs \in KeywordsFew, omitted \in {0, 1, 2} :
        /\ omitted # 0 => kwargs = NoKeywords
        /\ Called("patronValidate", Omit(<<patronBarcode, patronPassword>>, omitted), kwargs,
                  Bind(Omit(<<patronBarcode, patronPassword>>, omitted),
                       patronValidate(patronBarcode, patronPassword, kwargs)))

sortOptionsGetCall ==
    \E kwargs \in KeywordsFew :
        Called("sortOptionsGet", <<>>, kwargs,
               sortOptionsGet(kwargs))

synchItemsByBibIDGetCall ==
    \E accessToken \in Tokens, accessSecret \in Secrets, bibID \in RecordIDs, kwargs \in KeywordsOfStaff, omitted \in {0, 1, 3} :
        /\ omitted # 0 => kwargs = NoKeywords
        /\ Called("synchItemsByBibIDGet", Omit(<<accessToken, accessSecret, bibID>>, omitted), kwargs,
                  Bind(Omit(<<accessToken, accessSecret, bibID>>, omitted),
                       synchItemsByBibIDGet(accessToken, accessSecret, bibID, kwargs)))

synchTasksCheckoutCall ==
    \E accessToken \in Tokens, accessSecret \in Secrets, workstationID \in StationIDs, userID \in UserIDs, vendorID \in Names, vendorContractID \in RecordIDs, uniqueRecordID \in RecordIDs, patronBarcode \in Barcodes, itemExpireDateTime \in Epochs, transactionDateTime \in Epochs, kwargs \in KeywordsOfStaff, omitted \in {0, 1, 10} :
        /\ omitted # 0 => kwargs = NoKeywords
        /\ Called("synchTasksCheckout", Omit(<<accessToken, accessSecret, workstationID, userID, vendorID, vendorContractID, uniqueRecordID, patronBarcode, itemExpireDateTime, transactionDateTime>>, omitted), kwargs,
                  Bind(Omit(<<accessToken, accessSecret, workstationID, userID, vendorID, vendorContractID, uniqueRecordID, patronBarcode, itemExpireDateTime, transactionDateTime>>, omitted),
                       synchTasksCheckout(accessToken, accessSecret, workstationID, userID, vendorID, vendorContractID, uniqueRecordID, patronBarcode, itemExpireDateTime, transactionDateTime, kwargs)))

Next ==
    \/ Tick
    \/ authenticateStaffUserCall
    \/ bibGetCall
    \/ bibSearchCall
    \/ headingSearchCall
    \/ collectionsGetCall
    \/ bibHoldingsGetCall
    \/ holdRequestCancelCall
    \/ holdRequestCancelAllForPatronCall
    \/ holdRequestCreateCall
    \/ holdRequestReplyCall
    \/ holdRequestSuspendCall
    \/ holdRequestSuspendAllForPatronCall
    \/ itemRenewCall
    \/ itemRenewAllForPatronCall
    \/ limitFiltersGetCall
    \/ notificationUpdateCall
    \/ organizationsGetCall
    \/ patronAccountGetCall
    \/ patronAccountPayCall
    \/ patronBasicDataGetCall
    \/ patronCirculateBlocksGetCall
    \/ createPatronBlocksCall
    \/ patronHoldRequestsGetCall
    \/ patronItemsOutGetCall
    \/ patronMessagesGetCall
    \/ patronMessageUpdateStatusCall
    \/ patronMessageDeleteCall
    \/ patronPreferencesGetCall
    \/ patronReadingHistoryClearCall
    \/ patronRegistrationCreateCall
    \/ patronRenewBlocksGetCall
    \/ patronSavedSearchesGetCall
    \/ patronReadingHistoryGetCall
    \/ patronSearchCall
    \/ patronUpdateCall
    \/ patronValidateCall
    \/ sortOptionsGetCall
    \/ synchItemsByBibIDGetCall
    \/ synchTasksCheckoutCall

Spec == Init /\ [][Next]_vars

(***************************************************************************)
(* The properties of the client, stated on the most recent call.           *)
(***************************************************************************)
\* The public method op called with the arguments a and the keywords kwargs.
Invoke(op, a, kwargs) ==
    CASE op = "authenticateStaffUser" ->
             authenticateStaffUser(a[1], a[2], a[3], kwargs)
      [] op = "bibGet" ->
             bibGet(a[1], kwargs)
      [] op = "bibSearch" ->
             bibSearch(a[1], a[2], kwargs)
      [] op = "headingSearch" ->
             headingSearch(a[1], a[2], kwargs)
      [] op = "collectionsGet" ->
             collectionsGet(kwargs)
      [] op = "bibHoldingsGet" ->
             bibHoldingsGet(a[1], kwargs)
      [] op = "holdRequestCancel" ->
             holdRequestCancel(a[1], a[2], a[3], a[4], a[5], kwargs)
      [] op = "holdRequestCancelAllForPatron" ->
             holdRequestCancelAllForPatron(a[1], a[2], a[3], a[4], kwargs)
      [] op = "holdRequestCreate" ->
             holdRequestCreate(a[1], a[2], a[3], a[4], a[5], a[6], kwargs)
      [] op = "holdRequestReply" ->
             holdRequestReply(a[1], a[2], a[3], a[4], a[5], a[6], kwargs)
      [] op = "holdRequestSuspend" ->
             holdRequestSuspend(a[1], a[2], a[3], a[4], a[5], a[6], kwargs)
      [] op = "holdRequestSuspendAllForPatron" ->
             holdRequestSuspendAllForPatron(a[1], a[2], a[3], a[4], kwargs)
      [] op = "itemRenew" ->
             itemRenew(a[1], a[2], a[3], a[4], a[5], a[6], a[7], kwargs)
      [] op = "itemRenewAllForPatron" ->
             itemRenewAllForPatron(a[1], a[2], a[3], a[4], a[5], a[6], kwargs)
      [] op = "limitFiltersGet" ->
             limitFiltersGet(kwargs)
      [] op = "notificationUpdate" ->
             notificationUpdate(a[1], a[2], a[3], a[4], a[5], a[6], a[7], a[8], a[9], a[10], a[11], a[12], kwargs)
      [] op = "organizationsGet" ->
             organizationsGet(a[1], kwargs)
      [] op = "patronAccountGet" ->
             patronAccountGet(a[1], a[2], a[3], kwargs)
      [] op = "patronAccountPay" ->
             patronAccountPay(a[1], a[2], a[3], a[4], a[5], a[6], a[7], a[8], kwargs)
      [] op = "patronBasicDataGet" ->
             patronBasicDataGet(a[1], a[2], kwargs)
      [] op = "patronCirculateBlocksGet" ->
             patronCirculateBlocksGet(a[1], a[2], kwargs)
      [] op = "createPatronBlocks" ->
             createPatronBlocks(a[1], a[2], a[3], a[4], a[5], kwargs)
      [] op = "patronHoldRequestsGet" ->
             patronHoldRequestsGet(a[1], a[2], a[3], kwargs)
      [] op = "patronItemsOutGet" ->
             patronItemsOutGet(a[1], a[2], a[3], kwargs)
      [] op = "patronMessagesGet" ->
             patronMessagesGet(a[1], a[2], kwargs)
      [] op = "patronMessageUpdateStatus" ->
             patronMessageUpdateStatus(a[1], a[2], a[3], a[4], kwargs)
      [] op = "patronMessageDelete" ->
             patronMessageDelete(a[1], a[2], a[3], a[4], kwargs)
      [] op = "patronPreferencesGet" ->
             patronPreferencesGet(a[1], a[2], kwargs)
      [] op = "patronReadingHistoryClear" ->
             patronReadingHistoryClear(a[1], a[2], kwargs)
      [] op = "patronRegistrationCreate" ->
             patronRegistrationCreate(a[1], a[2], a[3], a[4], a[5], a[6], kwargs)
      [] op = "patronRenewBlocksGet" ->
             patronRenewBlocksGet(a[1], a[2], a[3], kwargs)
      [] op = "patronSavedSearchesGet" ->
             patronSavedSearchesGet(a[1], a[2], kwargs)
      [] op = "patronReadingHistoryGet" ->
             patronReadingHistoryGet(a[1], a[2], a[3], a[4], kwargs)
      [] op = "patronSearch" ->
             patronSearch(a[1], a[2], a[3], kwargs)
      [] op = "patronUpdate" ->
             patronUpdate(a[1], a[2], a[3], a[4], a[5], kwargs)
      [] op = "patronValidate" ->
             patronValidate(a[1], a[2], kwargs)
      [] op = "sortOptionsGet" ->
             sortOptionsGet(kwargs)
      [] op = "synchItemsByBibIDGet" ->
             synchItemsByBibIDGet(a[1], a[2], a[3], kwargs)
      [] op = "synchTasksCheckout" ->
             synchTasksCheckout(a[1], a[2], a[3], a[4], a[5], a[6], a[7], a[8], a[9], a[10], kwargs)

\* The methods of the staff: accessToken and accessSecret are their first
\* two parameters.
StaffOps ==
    {"notificationUpdate", "patronAccountPay", "createPatronBlocks",
     "patronRenewBlocksGet", "patronSearch", "synchItemsByBibIDGet",
     "synchTasksCheckout"}

\* The methods of a patron: patronBarcode and patronPassword are their
\* first two parameters.
PatronOps ==
    {"holdRequestCancel", "holdRequestCancelAllForPatron",
     "holdRequestSuspend", "holdRequestSuspendAllForPatron", "itemRenew",
     "itemRenewAllForPatron", "patronAccountGet", "patronBasicDataGet",
     "patronCirculateBlocksGet", "patronHoldRequestsGet", "patronItemsOutGet",
     "patronMessagesGet", "patronMessageUpdateStatus", "patronMessageDelete",
     "patronPreferencesGet", "patronReadingHistoryClear",
     "patronSavedSearchesGet", "patronReadingHistoryGet", "patronUpdate",
     "patronValidate"}

\* The methods that hand a data mapping to _undifferentiatied.
DataOps ==
    {"authenticateStaffUser", "holdRequestCreate", "holdRequestReply",
     "holdRequestSuspend", "holdRequestSuspendAllForPatron", "itemRenew",
     "itemRenewAllForPatron", "notificationUpdate", "patronAccountPay",
     "createPatronBlocks", "patronRegistrationCreate", "patronUpdate",
     "synchTasksCheckout"}

\* The most recent call handed a request to the session.
Sent == last.sends = 1

\* The caller of the most recent call gave every parameter of the method.
ArgumentsGiven == \A i \in DOMAIN last.args : last.args[i] # Omitted

TokenHeader == "X-PAPI-AccessToken"

\* The token header of headers, if any.
TokenOf(headers) ==
    IF TokenHeader \in DOMAIN headers THEN <<headers[TokenHeader]>> ELSE <<>>

\* text ends with tail
EndsWith(text, tail) ==
    /\ Len(tail) <= Len(text)
    /\ SubSeq(text, Len(text) - Len(tail) + 1, Len(text)) = tail

\* The message that the most recent call signed, and its signature.
SignedMessage == last.printed[1]
Signature == last.printed[2]

(***************************************************************************)
(* C1                                                                      *)
(***************************************************************************)
RECURSIVE SpacesAsPlus(_)
SpacesAsPlus(text) ==
    IF Len(text) = 0 THEN ""
    ELSE (IF SubSeq(text, 1, 1) = " " THEN "+" ELSE SubSeq(text, 1, 1))
             \o SpacesAsPlus(SubSeq(text, 2, Len(text)))

\* The 'key=value' pairs of items joined by '&'.
RECURSIVE PairsJoined(_)
PairsJoined(items) ==
    LET pair == SpacesAsPlus(items[1][1]) \o "=" \o SpacesAsPlus(items[1][2].v)
    IN  IF Len(items) = 1 THEN pair
        ELSE pair \o "&" \o PairsJoined(Tail(items))

QueryOf(params) ==
    IF Len(params.v) = 0 THEN "" ELSE "?" \o PairsJoined(params.v)

\* The params mapping that the caller of a search gave.
ParamsOfCall ==
    IF last.op = "patronSearch" THEN last.args[3] ELSE last.args[2]

\* A mapping of text keys to text values.
TextMapping(params) ==
    /\ params.t = "dict"
    /\ \A i \in DOMAIN params.v : params.v[i][2].t = "str"

\* C1: for every params mapping of text keys to text values, _dictParse
\* returns the empty string for the empty mapping and otherwise '?' followed
\* by the 'key=value' pairs joined by '&', every space of a key or of a
\* value replaced by '+' and every other character left as it is.
C1_DictParse ==
    (/\ Sent
     /\ last.op \in {"bibSearch", "headingSearch", "patronSearch"}
     /\ TextMapping(ParamsOfCall)) =>
        /\ last.locals.paramsSuffix = QueryOf(ParamsOfCall)
        /\ last.locals.paramsSuffix = _dictParse(ParamsOfCall)
        /\ (Len(ParamsOfCall.v) = 0 <=> last.locals.paramsSuffix = "")

C1_Witness ==
    /\ Sent
    /\ last.op = "headingSearch"
    /\ last.args[2] = PyDict(<< <<"start point", PyStr("civil war")>> >>)
    /\ last.locals.paramsSuffix = "?start+point=civil+war"

(***************************************************************************)
(* C2                                                                      *)
(***************************************************************************)
\* C2: for every request sent, the message given to the HMAC-SHA1 keyed with
\* the access key of the client is the HTTP method of the sent request, the
\* URL of the sent request, the value of its Date header and the signing
\* password, concatenated in this order without separators.
C2_SignedMessage ==
    Sent =>
        /\ SignedMessage = last.request.method \o last.request.url
                               \o last.request.headers["Date"].v
                               \o last.locals.patronPassword.v
        /\ Signature = DropLast(EncodeBase64(
                           HMAC_SHA1(self._accessKey.v, SignedMessage)))
        /\ EndsWith(last.request.headers["Authorization"].v, ":" \o Signature)

C2_Witness ==
    /\ Sent
    /\ last.op = "holdRequestCancel"
    /\ last.at = 0
    /\ last.kwargs = <<>>
    /\ SignedMessage =
           "PUThttp://h.org/PAPIService/REST/public/v1/1033/100/1/patron/B1/holdrequests/311260/cancelled?wsid=1&userid=2Thu, 01 Jan 1970 00:00:00 GMTP1"

(***************************************************************************)
(* C3                                                                      *)
(***************************************************************************)
\* The digest that the most recent call encoded.
Digest == HMAC_SHA1(self._accessKey.v, SignedMessage)

\* The length of the standard base64 text of the digest, padding included.
StandardLength == 4 * ((DigestSize + 2) \div 3)

\* The value of a character of the base64 alphabet.
B64Value(c) == (CHOOSE n \in 1..64 : SubSeq(B64Alphabet, n, n) = c) - 1

\* The value of the k-th character of the g-th group of four of text.
ValueAt(text, g, k) == B64Value(SubSeq(text, 4 * g + k, 4 * g + k))

\* The g-th group of four characters of text decodes to three bytes of
\* bytes.
GroupDecodes(text, g, bytes) ==
    /\ bytes[3 * g + 1] = ValueAt(text, g, 1) * 4 + (ValueAt(text, g, 2) \div 16)
    /\ bytes[3 * g + 2] = (ValueAt(text, g, 2) % 16) * 16
                              + (ValueAt(text, g, 3) \div 4)
    /\ bytes[3 * g + 3] = (ValueAt(text, g, 3) % 4) * 64 + ValueAt(text, g, 4)

\* The last group of text is two bytes of bytes and one '='.
LastGroupDecodes(text, g, bytes) ==
    /\ bytes[3 * g + 1] = ValueAt(text, g, 1) * 4 + (ValueAt(text, g, 2) \div 16)
    /\ bytes[3 * g + 2] = (ValueAt(text, g, 2) % 16) * 16
                              + (ValueAt(text, g, 3) \div 4)
    /\ ValueAt(text, g, 3) % 4 = 0
    /\ SubSeq(text, 4 * g + 4, 4 * g + 4) = "="

\* C3 as first stated: the signature is the standard base64 text of the
\* digest with its final '=' removed, one character shorter than the
\* unstripped text and not ending in '='.
C3_PaddingRemoved ==
    Sent =>
        /\ Len(Signature) = StandardLength - 1
        /\ ~EndsWith(Signature, "=")

\* C3: the signature returned by _getPAPIHash is the standard base64 text of
\* the 20-byte digest with its padding character '=' kept: it decodes to the
\* digest, has the length of the unstripped standard text and ends in '=';
\* the one character that [:-1] removes is the newline of the codec.
C3_Signature ==
    Sent =>
        /\ Len(Digest) = DigestSize
        /\ Len(Signature) = StandardLength
        /\ EndsWith(Signature, "=")
        /\ \A g \in 0..((DigestSize \div 3) - 1) :
               GroupDecodes(Signature, g, Digest)
        /\ LastGroupDecodes(Signature, DigestSize \div 3, Digest)
        /\ Signature \o "\n" = EncodeBase64(Digest)

C3_Witness ==
    /\ Sent
    /\ last.op = "patronBasicDataGet"
    /\ Len(Signature) = StandardLength
    /\ EndsWith(Signature, "=")
    /\ ~EndsWith(Signature, "==")

(***************************************************************************)
(* C4                                                                      *)
(***************************************************************************)
\* The accessSecret and the patronPassword that the caller supplied, if any.
SecretSupplied ==
    IF last.op \in StaffOps THEN <<last.args[2]>>
    ELSE IF "accessSecret" \in DOMAIN last.kwargs
    THEN <<last.kwargs["accessSecret"]>>
    ELSE <<>>

PasswordSupplied ==
    IF last.op \in PatronOps THEN <<last.args[2]>> ELSE <<>>

\* C4: the password signed is the accessSecret if one was supplied for the
\* call, otherwise the patronPassword if one was supplied, otherwise the
\* empty string.
C4_SigningPassword ==
    Sent =>
        LET password ==
                IF SecretSupplied # <<>> THEN SecretSupplied[1]
                ELSE IF PasswordSupplied # <<>> THEN PasswordSupplied[1]
                ELSE PyStr("")
        IN  /\ last.locals.patronPassword = password
            /\ SignedMessage =
                   SubSeq(SignedMessage, 1,
                          Len(SignedMessage) - Len(password.v)) \o password.v
            /\ EndsWith(SubSeq(SignedMessage, 1,
                               Len(SignedMessage) - Len(password.v)), " GMT")

C4_Witness ==
    /\ Sent
    /\ last.op = "patronBasicDataGet"
    /\ last.args[2] = PyStr("P1")
    /\ "accessSecret" \in DOMAIN last.kwargs
    /\ last.kwargs["accessSecret"] = PyStr("S9")
    /\ EndsWith(SignedMessage, " GMTS9")

(***************************************************************************)
(* C5                                                                      *)
(***************************************************************************)
\* The access token that reaches _undifferentiatied as a keyword, if any.
TokenSupplied ==
    IF "accessToken" \in DOMAIN last.kwargs
    THEN <<last.kwargs["accessToken"]>>
    ELSE <<>>

\* The protection level of the request, read from its URL.
ProtectionOfRequest ==
    LET url == last.request.url
        at(scheme) == Len(scheme) + Len(self._hostname.v)
                          + Len("/PAPIService/REST/")
        level(scheme) ==
            IF SubSeq(url, at(scheme) + 1, at(scheme) + Len("public/"))
                   = "public/" THEN "public"
            ELSE IF SubSeq(url, at(scheme) + 1, at(scheme) + Len("protected/"))
                        = "protected/" THEN "protected"
            ELSE "neither"
    IN  IF SubSeq(url, 1, Len("https://")) = "https://"
        THEN level("https://") ELSE level("http://")

\* C5: a request of the protection level 'protected' never carries
\* X-PAPI-AccessToken, whatever token the caller supplied; a request of the
\* level 'public' carries X-PAPI-AccessToken equal to the accessToken keyword
\* when a keyword that is not empty was supplied, and does not carry it
\* otherwise.
C5_TokenHeader ==
    Sent =>
        /\ ProtectionOfRequest \in {"public", "protected"}
        /\ ProtectionOfRequest = last.locals.protection
        /\ ProtectionOfRequest = "protected" =>
               TokenOf(last.request.headers) = <<>>
        /\ ProtectionOfRequest = "public" =>
               TokenOf(last.request.headers) =
                   IF TokenSupplied # <<>> /\ TokenSupplied[1] # PyStr("")
                   THEN TokenSupplied ELSE <<>>

C5_Witness ==
    /\ Sent
    /\ last.op = "authenticateStaffUser"
    /\ ProtectionOfRequest = "protected"
    /\ TokenSupplied = <<PyStr("T9")>>
    /\ TokenHeader \notin DOMAIN last.request.headers

(***************************************************************************)
(* C6                                                                      *)
(***************************************************************************)
\* The date component of the signed message: what follows the method and
\* the URL and precedes the password.
DateSigned ==
    SubSeq(SignedMessage,
           Len(last.request.method) + Len(last.request.url) + 1,
           Len(SignedMessage) - Len(last.locals.patronPassword.v))

\* C6: the Date header of every sent request is the string used as the date
\* of the signed message, and it is the GMT time of the clock at that call,
\* never the date of an earlier call.
C6_DateOfCall ==
    Sent =>
        /\ last.request.headers["Date"] = PyStr(DateSigned)
        /\ last.request.headers["Date"] = PyStr(formatdate(last.at))

C6_Witness ==
    /\ Sent
    /\ last.at > 0
    /\ last.at = MaxClock
    /\ last.request.headers["Date"] = PyStr(formatdate(MaxClock))
    /\ DateSigned = formatdate(MaxClock)
    /\ DateSigned # formatdate(0)

(***************************************************************************)
(* C7                                                                      *)
(***************************************************************************)
\* C7: every sent request has a JSON body, the serialization of the data
\* mapping of the operation or '{}' when the operation declares none, and
\* its Content-Length is the length of that body: 2 for '{}'.
C7_ContentLength ==
    Sent =>
        LET body == last.request.body
        IN  /\ body = last.locals.data
            /\ Len(body) >= 2
            /\ SubSeq(body, 1, 1) = "{"
            /\ EndsWith(body, "}")
            /\ last.op \in DataOps <=> body # "{}"
            /\ last.request.headers["Content-Length"] = PyInt(Len(body))
            /\ body = "{}" => last.request.headers["Content-Length"].v = 2

C7_Witness ==
    /\ Sent
    /\ last.op = "patronMessageDelete"
    /\ last.request.method = "DELETE"
    /\ last.request.body = "{}"
    /\ last.request.headers["Content-Length"] = PyInt(2)

(***************************************************************************)
(* C8                                                                      *)
(***************************************************************************)
FixedHeaders ==
    {"Authorization", "Date", "Content-Type", "Content-Length", "Accept"}

\* C8: the headers of every sent request are Authorization, Date,
\* Content-Type, Content-Length and Accept, and X-PAPI-AccessToken in the
\* public case with a token only; Authorization is 'PWS ', the access key
\* id of the client, a colon and the signature of this request; Content-Type
\* and Accept are 'application/json'.
C8_Headers ==
    Sent =>
        LET headers == last.request.headers
            withToken ==
                /\ last.locals.protection = "public"
                /\ "accessToken" \in DOMAIN last.kwargs
                /\ last.kwargs["accessToken"] # PyStr("")
        IN  /\ DOMAIN headers =
                   FixedHeaders \cup (IF withToken THEN {TokenHeader} ELSE {})
            /\ headers["Authorization"] =
                   PyStr("PWS " \o self._accessKeyID.v \o ":" \o Signature)
            /\ headers["Content-Type"] = PyStr("application/json")
            /\ headers["Accept"] = PyStr("application/json")

C8_Witness ==
    /\ Sent
    /\ last.op = "collectionsGet"
    /\ last.kwargs = ("accessToken" :> PyStr("T9"))
    /\ DOMAIN last.request.headers = FixedHeaders \cup {TokenHeader}
    /\ SubSeq(last.request.headers["Authorization"].v, 1, 12) = "PWS apiuser:"

(***************************************************************************)
(* C9                                                                      *)
(***************************************************************************)
Overrides == {"version", "langID", "appID", "orgID"}

\* The URL before the query suffix, with the four segments that kwargs
\* gives or their defaults.
UrlBuilt(kwargs) ==
    last.locals.protocol \o "://" \o self._hostname.v \o "/PAPIService/REST/"
        \o last.locals.protection
        \o "/" \o Get(kwargs, "version", PyStr("v1")).v
        \o "/" \o Get(kwargs, "langID", PyStr("1033")).v
        \o "/" \o Get(kwargs, "appID", PyStr("100")).v
        \o "/" \o Get(kwargs, "orgID", PyStr("1")).v
        \o "/" \o last.locals.suffixURI

\* C9: the URL built before the query suffix follows the template, with
\* 'v1', '1033', '100' and '1' for the segments the caller does not
\* override, and the same call without the overrides differs in those path
\* segments only: method, suffix, query suffix, body, signing password and
\* token header are the same.
C9_RootURI ==
    (Sent /\ clock = last.at) =>
        LET plain == Invoke(last.op, last.args, Without(last.kwargs, Overrides))
        IN  /\ last.locals.URI = UrlBuilt(last.kwargs) \o last.locals.paramsSuffix
            /\ plain.sends = 1
            /\ plain.locals.URI = UrlBuilt(<<>>) \o last.locals.paramsSuffix
            /\ plain.request.method = last.request.method
            /\ plain.locals.protocol = last.locals.protocol
            /\ plain.locals.protection = last.locals.protection
            /\ plain.locals.suffixURI = last.locals.suffixURI
            /\ plain.locals.paramsSuffix = last.locals.paramsSuffix
            /\ plain.request.body = last.request.body
            /\ plain.locals.patronPassword = last.locals.patronPassword
            /\ TokenOf(plain.request.headers) = TokenOf(last.request.headers)

C9_Witness ==
    /\ Sent
    /\ last.op = "collectionsGet"
    /\ DOMAIN last.kwargs = Overrides
    /\ last.locals.URI
           = "http://h.org/PAPIService/REST/public/v2/3084/101/2/collections"

(***************************************************************************)
(* C10                                                                     *)
(***************************************************************************)
\* C10: holdRequestCancelAllForPatron produces the request that
\* holdRequestCancel produces for the request id 0 and the same other
\* arguments and keywords: method, URL with its query suffix, body, signing
\* password and headers.
C10_CancelAll ==
    (last.op = "holdRequestCancelAllForPatron" /\ ArgumentsGiven
         /\ clock = last.at) =>
        \A zero \in {PyInt(0), PyStr("0")} :
            LET one == holdRequestCancel(last.args[1], last.args[2], zero,
                                         last.args[3], last.args[4],
                                         last.kwargs)
            IN  /\ Sent
                /\ one.sends = 1
                /\ one.request = last.request
                /\ one.locals.patronPassword = last.locals.patronPassword
                /\ one.printed = last.printed

C10_Witness ==
    /\ Sent
    /\ last.op = "holdRequestCancelAllForPatron"
    /\ "orgID" \in DOMAIN last.kwargs
    /\ last.request.method = "PUT"
    /\ last.request.url
           = "http://h.org/PAPIService/REST/public/v2/1033/100/2/patron/B1/holdrequests/0/cancelled?wsid=1&userid=2"

(***************************************************************************)
(* C11                                                                     *)
(***************************************************************************)
\* C11: itemRenewAllForPatron sends the request that itemRenew sends for the
\* item id 0 and the same patron barcode, password, logon branch, logon
\* user, logon workstation and ignoreOverrideErrors: a PUT to
\* 'patron/{patronBarcode}/itemsout/0' with the renew body.
C11_RenewAll ==
    (last.op = "itemRenewAllForPatron" /\ ArgumentsGiven
         /\ clock = last.at) =>
        LET one == itemRenew(last.args[1], last.args[2], PyInt(0),
                             last.args[3], last.args[4], last.args[5],
                             last.args[6], last.kwargs)
        IN  /\ one.sends = 1
            /\ one.request.method = "PUT"
            /\ Sent
            /\ last.request = one.request

(***************************************************************************)
(* C12                                                                     *)
(***************************************************************************)
\* text holds piece
Contains(text, piece) ==
    \E i \in 1..(Len(text) - Len(piece) + 1) :
        SubSeq(text, i, i + Len(piece) - 1) = piece

\* The member name: "value" of a JSON object
Member(name, value) == "\"" \o name \o "\": \"" \o value \o "\""

\* The token of the epoch seconds that the caller gave as x
TokenOfSeconds(x) == "/Date(" \o Fmt(x) \o "000-0000)/"

\* The body of the most recent call holds the token of each date that the
\* caller gave to holdRequestCreate, holdRequestSuspend,
\* holdRequestSuspendAllForPatron or synchTasksCheckout.
DatesWrapped ==
    LET body == last.request.body
    IN  /\ (last.op \in {"holdRequestCreate", "holdRequestSuspendAllForPatron"}
               /\ "activationDate" \in DOMAIN last.kwargs) =>
               Contains(body, Member("ActivationDate",
                            TokenOfSeconds(last.kwargs["activationDate"])))
        /\ last.op = "holdRequestSuspend" =>
               Contains(body, Member("ActivationDate",
                                     TokenOfSeconds(last.args[6])))
        /\ last.op = "synchTasksCheckout" =>
               /\ Contains(body, Member("ItemExpireDateTime",
                                        TokenOfSeconds(last.args[9])))
               /\ Contains(body, Member("TransactionDateTime",
                                        TokenOfSeconds(last.args[10])))

\* C12 as first stated: in every operation that takes a date, the delivery
\* date of notificationUpdate included, the body field holds '/Date(', the
\* epoch seconds of the caller, '000' and '-0000)/'.
C12_EveryDateWrapped ==
    Sent =>
        /\ DatesWrapped
        /\ last.op = "notificationUpdate" =>
               Contains(last.request.body,
                        Member("NotificationDeliveryDate",
                               TokenOfSeconds(last.args[8])))

\* C12: holdRequestCreate, holdRequestSuspend, holdRequestSuspendAllForPatron
\* and synchTasksCheckout put '/Date(', the text of the caller, '000' and
\* '-0000)/' in the body field of each date the caller gives
\* (holdRequestCreate without an activationDate takes the seconds of the
\* clock); notificationUpdate puts the delivery date of the caller in the
\* body as it is given.
C12_DateTokens ==
    Sent =>
        /\ DatesWrapped
        /\ (last.op = "holdRequestCreate"
               /\ "activationDate" \notin DOMAIN last.kwargs) =>
               Contains(last.request.body,
                        Member("ActivationDate",
                               TokenOfSeconds(PyInt(last.at))))
        /\ last.op = "notificationUpdate" =>
               Contains(last.request.body,
                        Member("NotificationDeliveryDate", last.args[8].v))

C12_Witness ==
    /\ Sent
    /\ last.op = "holdRequestSuspend"
    /\ last.args[6] = PyStr("1491058")
    /\ Contains(last.request.body,
                "\"ActivationDate\": \"/Date(1491058000-0000)/\"")

(***************************************************************************)
(* C13                                                                     *)
(***************************************************************************)
\* The caller of the most recent call left out a parameter that the
\* operation requires (holdRequestSuspendAllForPatron requires the
\* activationDate that it hands to holdRequestSuspend).
ParameterOmitted ==
    \/ \E i \in DOMAIN last.args : last.args[i] = Omitted
    \/ /\ last.op = "holdRequestSuspendAllForPatron"
       /\ "activationDate" \notin DOMAIN last.kwargs

\* C13: a call that omits a required parameter of the operation ends in a
\* raised error, and the send of the transport is invoked zero times
\* during that call.
C13_MissingParameter ==
    ParameterOmitted =>
        /\ last.outcome = "raised"
        /\ last.error = "TypeError"
        /\ last.sends = 0
        /\ last.printed = <<>>
        /\ last.request = NoRequest

C13_Witness ==
    /\ last.op = "patronBasicDataGet"
    /\ last.args[1] = Omitted
    /\ last.args[2] = PyStr("P1")
    /\ last.outcome = "raised"
    /\ last.sends = 0

(***************************************************************************)
(* Clients constructed with a credential that is None or empty             *)
(* (__init__, lines 67-71, stores whatever it is given).                   *)
(***************************************************************************)
AccessKeysGiven == AccessKeys \cup {PyNone, PyStr("")}
AccessKeyIDsGiven == AccessKeyIDs \cup {PyNone, PyStr("")}
HostnamesGiven == Hostnames \cup {PyNone, PyStr("")}

InitOfAnyClient ==
    /\ \E accessKey \in AccessKeysGiven, accessKeyID \in AccessKeyIDsGiven,
          hostname \in HostnamesGiven :
           self = PAPI(accessKey, accessKeyID, hostname)
    /\ clock = 0
    /\ last = NoCall

NextOfAnyClient ==
    \/ Tick
    \/ collectionsGetCall
    \/ patronBasicDataGetCall

SpecOfAnyClient == InitOfAnyClient /\ [][NextOfAnyClient]_vars

Absent(value) == value = PyNone \/ value = PyStr("")

CredentialAbsent ==
    \/ Absent(self._accessKey)
    \/ Absent(self._accessKeyID)
    \/ Absent(self._hostname)

\* C14: a client whose access key, key id or hostname is None or empty
\* does not exist after construction, so that no call of such a client
\* computes a signature or invokes send.
C14_NoAbsentCredential ==
    CredentialAbsent => last.printed = <<>> /\ last.sends = 0

(***************************************************************************)
(* C15                                                                     *)
(***************************************************************************)
ProtectedOps ==
    {"authenticateStaffUser", "notificationUpdate", "patronAccountPay",
     "createPatronBlocks", "patronRenewBlocksGet", "patronSearch",
     "synchItemsByBibIDGet", "synchTasksCheckout"}

\* The scheme of the request, read from its URL.
SchemeOfRequest ==
    IF SubSeq(last.request.url, 1, Len("https://")) = "https://" THEN "https"
    ELSE IF SubSeq(last.request.url, 1, Len("http://")) = "http://" THEN "http"
    ELSE "neither"

\* C15: the request of every protected operation is sent with the scheme
\* 'https' and to the protection level 'protected', the request of every
\* other operation with the scheme 'http' and to the level 'public',
\* whatever keywords the caller gives.
C15_SchemeOfProtection ==
    Sent =>
        IF last.op \in ProtectedOps
        THEN SchemeOfRequest = "https" /\ ProtectionOfRequest = "protected"
        ELSE SchemeOfRequest = "http" /\ ProtectionOfRequest = "public"

(***************************************************************************)
(* C16                                                                     *)
(***************************************************************************)
\* C16: a call whose params is not a mapping, or whose params holds a value
\* that is not a text, raises an error before any signature is computed
\* and before send is invoked.
C16_MalformedParams ==
    (/\ last.op \in {"bibSearch", "headingSearch", "patronSearch"}
     /\ ArgumentsGiven
     /\ ~TextMapping(ParamsOfCall)) =>
        /\ last.outcome = "raised"
        /\ last.printed = <<>>
        /\ last.sends = 0

(***************************************************************************)
(* C17                                                                     *)
(***************************************************************************)
\* The URL inside the signed message: what stands between the method and
\* the date.
SignedUrl ==
    SubSeq(SignedMessage, Len(last.request.method) + 1,
           Len(SignedMessage) - Len(last.request.headers["Date"].v)
               - Len(last.locals.patronPassword.v))

\* The URL as line 112 assembles it.
AssembledUrl ==
    last.locals.rootURI \o last.locals.suffixURI \o last.locals.paramsSuffix

\* The characters that the preparation of a URL leaves as they are in a
\* path and in a query: the unreserved ones, the sub-delimiters, and
\* ':', '/', '?' and '@'.
PlainChars ==
    LET plain == "-._~!$&'()*+,;=:/?@0123456789" \o LowerCase \o UpperCase
    IN  {SubSeq(plain, i, i) : i \in 1..Len(plain)}

Plain(text) == \A i \in 1..Len(text) : SubSeq(text, i, i) \in PlainChars

C18_ClientUnchanged ==
    [][/\ self'._accessKey = self._accessKey
       /\ self'._accessKeyID = self._accessKeyID
       /\ self'._hostname = self._hostname
       /\ self'._session = self._session]_vars

\* A call that raised, made after the clock moved, on the client as it was
\* constructed.
C18_Witness ==
    /\ last.op = "patronSearch"
    /\ last.outcome = "raised"
    /\ last.at = 1
    /\ self \in {PAPI(accessKey, accessKeyID, hostname) :
                     accessKey \in AccessKeys, accessKeyID \in AccessKeyIDs,
                     hostname \in Hostnames}

(***************************************************************************)
(* C19                                                                     *)
(***************************************************************************)
\* C19: a call of a public method invokes send at most once; when send
\* returns a response, the call returns that same response whatever its
\* status code; when send raises, the call raises that same error and send
\* was invoked once only; a call that raised before send has no reply.
C19_OneSend ==
    /\ last.sends \in {0, 1}
    /\ Len(last.reply) = last.sends
    /\ (last.sends = 1 /\ last.reply[1].raises = "") =>
           /\ last.outcome = "returned"
           /\ last.returned = last.reply
    /\ (last.sends = 1 /\ last.reply[1].raises # "") =>
           /\ last.outcome = "raised"
           /\ last.error = last.reply[1].raises
           /\ last.returned = <<>>
    /\ last.sends = 0 => last.outcome \in {"none", "raised"}

\* A call whose send returned a response of status 500, which the call
\* returned.
C19_Witness ==
    /\ last.op = "patronAccountPay"
    /\ last.sends = 1
    /\ last.reply = <<[raises |-> "", status_code |-> 500]>>
    /\ last.outcome = "returned"
    /\ last.returned = last.reply

====
